---- MODULE Spec2Model ----
(***************************************************************************)
(* A model of the retype-cli refactoring engine: the Project Index (the    *)
(* in-memory files of the ts-morph project and the files on disk), the     *)
(* entity model, search, rename, extract, the unused-entity detector and   *)
(* import repair.                                                          *)
(*                                                                         *)
(* Strings that the code inspects (paths, module specifiers, identifier    *)
(* names) are sequences of one-character strings, so that startsWith,      *)
(* endsWith, includes, toLowerCase, path.relative, path.resolve and        *)
(* path.extname are computed as the code computes them.  A source file is  *)
(* a sequence of lines; a line is a record saying what that line of text   *)
(* holds (a comment, an import declaration, a top-level declaration, an    *)
(* expression statement).                                                  *)
(***************************************************************************)
EXTENDS Integers, Sequences, FiniteSets, TLC

VARIABLES files, disk, diskDirs, last, steps, projectInstance

vars == <<files, disk, diskDirs, last, steps, projectInstance>>

----------------------------------------------------------------------------
(* Strings as sequences of characters.                                     *)

Range(s) == {s[i] : i \in DOMAIN s}

StartsWith(s, p) ==
  /\ Len(p) <= Len(s)
  /\ SubSeq(s, 1, Len(p)) = p

EndsWith(s, p) ==
  /\ Len(p) <= Len(s)
  /\ SubSeq(s, Len(s) - Len(p) + 1, Len(s)) = p

\* String.prototype.includes: q occurs in s as a contiguous substring.
Includes(s, q) ==
  \E i \in 0..(Len(s) - Len(q)) : SubSeq(s, i + 1, i + Len(q)) = q

LowerChar(c) ==
  CASE c = "A" -> "a" [] c = "B" -> "b" [] c = "F" -> "f" [] c = "G" -> "g"
    [] c = "H" -> "h" [] c = "U" -> "u" [] c = "X" -> "x" [] c = "Y" -> "y"
    [] c = "S" -> "s" [] c = "E" -> "e" [] c = "R" -> "r"
    [] OTHER -> c

ToLowerCase(s) == [i \in DOMAIN s |-> LowerChar(s[i])]

\* The character class \w of a JavaScript regular expression.
WordChars ==
  {"a", "b", "c", "d", "e", "f", "g", "h", "i", "j", "k", "l", "m", "n", "o",
   "p", "q", "r", "s", "t", "u", "v", "w", "x", "y", "z",
   "A", "B", "E", "F", "G", "H", "R", "S", "U", "X", "Y",
   "0", "1", "2", "3", "4", "5", "6", "7", "8", "9", "_"}

Digits == {"0", "1", "2", "3", "4", "5", "6", "7", "8", "9"}

\* /^[a-zA-Z_$][a-zA-Z0-9_$]*$/ : the identifier test of the prompts.
IsIdentifier(s) ==
  /\ Len(s) > 0
  /\ s[1] \in (WordChars \ Digits) \cup {"$"}
  /\ \A i \in DOMAIN s : s[i] \in WordChars \cup {"$"}

\* The largest element of a set of indices, 0 for the empty set.
MaxOf(hits) == IF hits = {} THEN 0 ELSE CHOOSE i \in hits : \A j \in hits : j <= i

\* The smallest element of a set of indices, 0 for the empty set.
MinOf(hits) == IF hits = {} THEN 0 ELSE CHOOSE i \in hits : \A j \in hits : i <= j

\* The index of the last occurrence of character c in s, 0 when absent.
LastIndexOf(s, c) == MaxOf({i \in DOMAIN s : s[i] = c})

\* The index of the first occurrence of character c in s, 0 when absent.
IndexOf(s, c) == MinOf({i \in DOMAIN s : s[i] = c})

RECURSIVE SplitAt(_, _, _)
\* s.split(c): the pieces of s between the occurrences of character c; i is
\* the index of the first occurrence.
SplitAt(s, c, i) ==
  IF i = 0 THEN <<s>>
  ELSE <<SubSeq(s, 1, i - 1)>>
         \o SplitAt(SubSeq(s, i + 1, Len(s)), c,
                    IndexOf(SubSeq(s, i + 1, Len(s)), c))

Split(s, c) == SplitAt(s, c, IndexOf(s, c))

RECURSIVE Join(_, _)
\* segs.join(c)
Join(segs, c) ==
  IF Len(segs) = 0 THEN <<>>
  ELSE IF Len(segs) = 1 THEN segs[1]
  ELSE segs[1] \o <<c>> \o Join(Tail(segs), c)

RECURSIVE SelectIdx(_, _, _)
\* The indices i of lo..hi with keep[i], in increasing order.
SelectIdx(keep, lo, hi) ==
  IF lo > hi THEN <<>>
  ELSE (IF keep[lo] THEN <<lo>> ELSE <<>>) \o SelectIdx(keep, lo + 1, hi)

\* The indices of a sequence of booleans that hold.
Where(keep) == SelectIdx(keep, 1, Len(keep))

\* The elements of s at the indices idx.
Pick(s, idx) == [x \in DOMAIN idx |-> s[idx[x]]]

RECURSIVE Flatten(_)
\* The concatenation of a sequence of sequences.
Flatten(ss) == IF Len(ss) = 0 THEN <<>> ELSE Head(ss) \o Flatten(Tail(ss))

----------------------------------------------------------------------------
(* Node's path module (posix), as the code uses it.                        *)

Dot == <<".">>
DotDot == <<".", ".">>
Slash == "/"

IsAbsolute(p) == Len(p) > 0 /\ p[1] = Slash

RECURSIVE NormSegs(_, _, _)
\* path.normalize on segments: drop "." and empty segments, let ".." cancel
\* the segment before it; above the start, ".." is kept for a relative path
\* and dropped for an absolute one.
NormSegs(segs, acc, abs) ==
  IF Len(segs) = 0 THEN acc
  ELSE IF Head(segs) = <<>> \/ Head(segs) = Dot
       THEN NormSegs(Tail(segs), acc, abs)
  ELSE IF Head(segs) # DotDot
       THEN NormSegs(Tail(segs), Append(acc, Head(segs)), abs)
  ELSE IF Len(acc) > 0 /\ acc[Len(acc)] # DotDot
       THEN NormSegs(Tail(segs), SubSeq(acc, 1, Len(acc) - 1), abs)
  ELSE IF abs THEN NormSegs(Tail(segs), acc, abs)
  ELSE NormSegs(Tail(segs), Append(acc, Head(segs)), abs)

\* The normalized segments of an absolute path.
AbsSegs(p) == NormSegs(Split(p, Slash), <<>>, TRUE)

NormalizedText(abs, body) ==
  IF abs THEN <<Slash>> \o body
  ELSE IF body = <<>> THEN Dot ELSE body

\* path.normalize(p)
PathNormalize(p) ==
  NormalizedText(IsAbsolute(p),
                 Join(NormSegs(Split(p, Slash), <<>>, IsAbsolute(p)), Slash))

\* path.resolve(dir, p) for an absolute dir
PathResolve(dir, p) ==
  PathNormalize(IF IsAbsolute(p) THEN p ELSE dir \o <<Slash>> \o p)

\* path.join(a, b)
PathJoin(a, b) == PathNormalize(a \o <<Slash>> \o b)

DirnameAt(p, i) ==
  IF i = 0 THEN Dot
  ELSE IF i = 1 THEN <<Slash>>
  ELSE SubSeq(p, 1, i - 1)

\* path.dirname(p)
PathDirname(p) == DirnameAt(p, LastIndexOf(p, Slash))

PathBasename(p) == SubSeq(p, LastIndexOf(p, Slash) + 1, Len(p))

ExtnameAt(b, i) == IF i <= 1 \/ b = DotDot THEN <<>> ELSE SubSeq(b, i, Len(b))

\* The extension of a base name: from its last "." to the end; empty when it
\* has no "." or only a leading one.
ExtOfBase(b) == ExtnameAt(b, LastIndexOf(b, "."))

\* path.extname(p)
PathExtname(p) == ExtOfBase(PathBasename(p))

RECURSIVE CommonPrefixLen(_, _)
CommonPrefixLen(a, b) ==
  IF Len(a) = 0 \/ Len(b) = 0 \/ Head(a) # Head(b) THEN 0
  ELSE 1 + CommonPrefixLen(Tail(a), Tail(b))

RelativeFrom(fs, ts, c) ==
  Join([i \in 1..(Len(fs) - c) |-> DotDot] \o SubSeq(ts, c + 1, Len(ts)), Slash)

RelativeSegs(fs, ts) == RelativeFrom(fs, ts, CommonPrefixLen(fs, ts))

\* path.relative(from, to) for absolute paths
PathRelative(from, to) == RelativeSegs(AbsSegs(from), AbsSegs(to))

----------------------------------------------------------------------------
(* src/utils/path.ts                                                       *)

BackslashesToSlashes(n) == [i \in DOMAIN n |-> IF n[i] = "\\" THEN Slash ELSE n[i]]

normalizePath(p) == BackslashesToSlashes(PathNormalize(p))

DotPrefixed(normalized) ==
  IF ~StartsWith(normalized, Dot) THEN <<".", Slash>> \o normalized
  ELSE normalized

getRelativePath(from, to) ==
  DotPrefixed(normalizePath(PathRelative(PathDirname(from), to)))

\* filePath.slice(0, -n): with n = 0 this is slice(0, -0) = slice(0, 0), the
\* empty string.
SliceOff(filePath, n) ==
  IF n = 0 THEN <<>> ELSE SubSeq(filePath, 1, Len(filePath) - n)

removeExtension(filePath) == SliceOff(filePath, Len(PathExtname(filePath)))

RECURSIVE Ancestors(_)
\* The directory d and every directory above it.
Ancestors(d) ==
  IF d = <<Slash>> \/ d = Dot \/ Len(d) = 0 THEN {<<Slash>>}
  ELSE {d} \cup Ancestors(PathDirname(d))

\* fs.mkdirSync(dir, {recursive: true}) unless fs.existsSync(dir): the
\* directories on disk afterwards.
MakeDir(dirs, dir) == IF dir \in dirs THEN dirs ELSE dirs \cup Ancestors(dir)

ensureDirectoryExists(dirs, filePath) == MakeDir(dirs, PathDirname(filePath))

----------------------------------------------------------------------------
(* Source text.  A file is [path, lines]; each line is a record of one     *)
(* shape.  k is the sort of line:                                          *)
(*   "blank"    an empty line                                              *)
(*   "comment"  a line comment; exp is the number of "export " tokens put  *)
(*              in front of it (extract prepends one to a captured text    *)
(*              whose first line is a comment)                             *)
(*   "import"   an import declaration: spec its module specifier, names    *)
(*              its named imports, def and ns its default and namespace    *)
(*              import (empty when absent)                                 *)
(*   "decl"     a top-level declaration statement: kind, exp the number of *)
(*              export modifiers written on it, mods the length of other   *)
(*              modifiers before the keyword, kw the variable keyword,     *)
(*              decls one [name, uses] per declarator                      *)
(*   "use"      a top-level expression statement with identifier uses      *)
(*   "cont"     a further line of the import declaration that starts on    *)
(*              the line before (an import written over several lines: its *)
(*              first line is the "import" record, with text "import {")   *)
(* A use is [name, parent, col]: the identifier, the syntax kind of its    *)
(* parent node and its column in the line.                                 *)

NoStr == <<>>

Line(k, text, exp, kind, mods, kw, decls, spec, names, def, ns, uses) ==
  [k |-> k, text |-> text, exp |-> exp, kind |-> kind, mods |-> mods,
   kw |-> kw, decls |-> decls, spec |-> spec, names |-> names, def |-> def,
   ns |-> ns, uses |-> uses, alias |-> <<>>]

BlankLine == Line("blank", "", 0, "", 0, "", <<>>, NoStr, <<>>, NoStr, NoStr, <<>>)

CommentLine(text) ==
  Line("comment", text, 0, "", 0, "", <<>>, NoStr, <<>>, NoStr, NoStr, <<>>)

ImportLine(names, spec) ==
  Line("import", "", 0, "", 0, "", <<>>, spec, names, NoStr, NoStr, <<>>)

ImportFull(names, def, ns, spec) ==
  Line("import", "", 0, "", 0, "", <<>>, spec, names, def, ns, <<>>)

\* import { name as alias } from "spec": alias[j] is the alias of names[j],
\* NoStr when it has none.
ImportAliased(names, alias, spec) == [ImportLine(names, spec) EXCEPT !.alias = alias]

\* The name the j-th named import of the declaration binds in its file.
LocalName(l, j) ==
  IF j \in DOMAIN l.alias /\ l.alias[j] # NoStr THEN l.alias[j] ELSE l.names[j]

\* An import declaration written over several lines: the line that starts
\* with "import ", a line with the names and the line with the specifier.
ContLine(text) ==
  Line("cont", text, 0, "", 0, "", <<>>, NoStr, <<>>, NoStr, NoStr, <<>>)

MultiLineImport(names, spec) ==
  <<Line("import", "import {", 0, "", 0, "", <<>>, spec, names, NoStr, NoStr, <<>>),
    ContLine("names"), ContLine("from")>>

Use(name, parent, col) == [name |-> name, parent |-> parent, col |-> col]

Declarator(name, uses) == [name |-> name, uses |-> uses]

\* function / class / interface / type / enum declaration
DeclLine(kind, exp, mods, name, uses) ==
  Line("decl", "", exp, kind, mods, "", <<Declarator(name, uses)>>,
       NoStr, <<>>, NoStr, NoStr, <<>>)

\* a variable statement with its declarators
VarLine(exp, kw, decls) ==
  Line("decl", "", exp, "variable", 0, kw, decls, NoStr, <<>>, NoStr, NoStr, <<>>)

UseLine(uses) ==
  Line("use", "", 0, "", 0, "", <<>>, NoStr, <<>>, NoStr, NoStr, uses)

File(path, lines) == [path |-> path, lines |-> lines]

NoFile == File(NoStr, <<>>)

IsTrivia(l) == l.k \in {"blank", "comment"}

\* The index in fs of the file with this path, 0 when there is none.
FileIndex(fs, path) == MinOf({i \in DOMAIN fs : fs[i].path = path})

HasFile(fs, path) == FileIndex(fs, path) # 0

GetFile(fs, path) == fs[FileIndex(fs, path)]

SetLines(fs, path, lines) ==
  [i \in DOMAIN fs |-> IF fs[i].path = path THEN File(path, lines) ELSE fs[i]]

\* The first line of the leading trivia of the statement at line i: the run
\* of comment and blank lines right before it belongs to its full text.
RECURSIVE TriviaStart(_, _)
TriviaStart(lines, i) ==
  IF i > 1 /\ IsTrivia(lines[i - 1]) THEN TriviaStart(lines, i - 1) ELSE i

RECURSIVE SkipBlank(_, _, _)
SkipBlank(lines, lo, hi) ==
  IF lo < hi /\ lines[lo].k = "blank" THEN SkipBlank(lines, lo + 1, hi) ELSE lo

\* node.getFullText().trim() of the statement at line i: its leading
\* comments (without the blank lines before the first one) and the statement.
TrimmedFullText(lines, i) ==
  SubSeq(lines, SkipBlank(lines, TriviaStart(lines, i), i), i)

\* The number of export modifiers the parser sees on the declaration at line
\* i: those written on the line and those left in front of the comments
\* right before it.
RECURSIVE TriviaExports(_, _, _)
TriviaExports(lines, lo, hi) ==
  IF lo >= hi THEN 0
  ELSE lines[lo].exp + TriviaExports(lines, lo + 1, hi)

ExportModifiers(lines, i) ==
  lines[i].exp + TriviaExports(lines, TriviaStart(lines, i), i)

----------------------------------------------------------------------------
(* src/core/entities.ts: the entity model.                                 *)

EntityKinds == <<"function", "class", "variable", "interface", "type", "enum">>

\* createEntity / createEntityFromVariable.  node is the declaration handle:
\* the line of the statement and the declarator in it.
createEntity(file, i, d) ==
  [name |-> file.lines[i].decls[d].name,
   kind |-> file.lines[i].kind,
   filePath |-> file.path,
   line |-> i,
   column |-> 1,
   isExported |-> ExportModifiers(file.lines, i) >= 1,
   node |-> [l |-> i, d |-> d]]

\* The declarators of line l that have a name (an anonymous function or
\* class has none and is skipped).
NamedDeclarators(l) == Where([d \in DOMAIN l.decls |-> l.decls[d].name # NoStr])

EntitiesOfDeclarators(file, i, ds) ==
  [n \in DOMAIN ds |-> createEntity(file, i, ds[n])]

EntitiesInLine(file, kind, i) ==
  IF file.lines[i].k = "decl" /\ file.lines[i].kind = kind
  THEN EntitiesOfDeclarators(file, i, NamedDeclarators(file.lines[i]))
  ELSE <<>>

\* The entities of one kind in the file, in source order.
EntitiesOfKind(file, kind) ==
  Flatten([i \in DOMAIN file.lines |-> EntitiesInLine(file, kind, i)])

extractEntitiesFromFile(file) ==
  Flatten([k \in DOMAIN EntityKinds |-> EntitiesOfKind(file, EntityKinds[k])])

----------------------------------------------------------------------------
(* The language model provider (ts-morph over the TypeScript language      *)
(* service): module resolution, symbol binding, positions, references.     *)

TsExt == <<".", "t", "s">>
TsxExt == <<".", "t", "s", "x">>
JsExt == <<".", "j", "s">>
IndexTs == <<"i", "n", "d", "e", "x", ".", "t", "s">>

\* A module specifier is relative when it starts with "./" or "../".
IsRelativeSpecifier(spec) ==
  \/ StartsWith(spec, <<".", Slash>>)
  \/ StartsWith(spec, <<".", ".", Slash>>)
  \/ spec = Dot
  \/ spec = DotDot

\* The first element of s among the indices idx, NoStr when idx is empty.
FirstOr(s, idx) == IF Len(idx) = 0 THEN NoStr ELSE s[idx[1]]

FirstInProject(fs, cands) ==
  FirstOr(cands, Where([i \in DOMAIN cands |-> HasFile(fs, cands[i])]))

StripJs(base) ==
  IF EndsWith(base, JsExt) THEN SubSeq(base, 1, Len(base) - Len(JsExt)) ELSE base

\* The files the compiler tries for a module path: base.ts, base.tsx,
\* base/index.ts, and for a specifier written with the emitted .js extension
\* the .ts or .tsx source.
ResolveCandidates(base, stem) ==
  <<base \o TsExt, base \o TsxExt, PathJoin(base, IndexTs),
    stem \o TsExt, stem \o TsxExt>>

ResolveBase(fs, base) == FirstInProject(fs, ResolveCandidates(base, StripJs(base)))

\* The file of the project a module specifier written in file `from` denotes,
\* NoStr when it denotes none.
ProviderResolve(fs, from, spec) ==
  IF ~IsRelativeSpecifier(spec) THEN NoStr
  ELSE ResolveBase(fs, PathResolve(PathDirname(from), spec))

DeclsOfDeclarators(i, ds) == [x \in DOMAIN ds |-> [l |-> i, d |-> ds[x]]]

DeclsNamedInLine(l, n, i) ==
  IF l.k = "decl"
  THEN DeclsOfDeclarators(i, Where([d \in DOMAIN l.decls |-> l.decls[d].name = n]))
  ELSE <<>>

\* The declaration handles of the file whose name is n, in source order.
DeclsNamed(file, n) ==
  Flatten([i \in DOMAIN file.lines |-> DeclsNamedInLine(file.lines[i], n, i)])

NoNode == [l |-> 0, d |-> 0]

NoBinding == [path |-> NoStr, node |-> NoNode]

\* The import declarations of file g that name n among their named imports.
ImportsNaming(g, n) ==
  Where([i \in DOMAIN g.lines |->
           /\ g.lines[i].k = "import"
           /\ \E j \in DOMAIN g.lines[i].names : LocalName(g.lines[i], j) = n])

\* The name under which the module exports what the import declaration l
\* binds to n.
ImportedName(l, n) ==
  l.names[MinOf({j \in DOMAIN l.names : LocalName(l, j) = n})]

FirstExported(t, ds, ex) ==
  IF Len(ex) = 0 THEN NoBinding ELSE [path |-> t.path, node |-> ds[ex[1]]]

ExportedAmong(t, ds) ==
  FirstExported(t, ds, Where([i \in DOMAIN ds |-> ExportModifiers(t.lines, ds[i].l) >= 1]))

\* The exported declaration named n of the module at path target.
ExportedBinding(fs, target, n) ==
  IF target = NoStr THEN NoBinding
  ELSE ExportedAmong(GetFile(fs, target), DeclsNamed(GetFile(fs, target), n))

\* A file without imports and exports is a script: its top-level
\* declarations are globals.
IsScript(file) ==
  \A i \in DOMAIN file.lines : file.lines[i].k # "import" /\ file.lines[i].exp = 0

FirstGlobal(fs, n, idx) ==
  IF Len(idx) = 0 THEN NoBinding
  ELSE [path |-> fs[idx[1]].path, node |-> DeclsNamed(fs[idx[1]], n)[1]]

\* The global declaration named n: the first one in a script of the project.
GlobalBinding(fs, n) ==
  FirstGlobal(fs, n, Where([i \in DOMAIN fs |->
                              IsScript(fs[i]) /\ Len(DeclsNamed(fs[i], n)) > 0]))

BindingOf(fs, g, n, local, imps) ==
  IF Len(local) > 0 THEN [path |-> g.path, node |-> local[1]]
  ELSE IF Len(imps) = 0 THEN GlobalBinding(fs, n)
  ELSE ExportedBinding(fs, ProviderResolve(fs, g.path, g.lines[imps[1]].spec),
                       ImportedName(g.lines[imps[1]], n))

\* The declaration an identifier n written in file g is bound to: the file's
\* own top-level declaration of that name, else the exported declaration of
\* that name in the module a named import of n comes from, else the global
\* of that name.
Binding(fs, g, n) == BindingOf(fs, g, n, DeclsNamed(g, n), ImportsNaming(g, n))

\* The number of characters of a line of text.
LineLen(l) ==
  CASE l.k = "blank" -> 0
    [] l.k = "comment" -> 10 + 7 * l.exp
    [] l.k = "import" -> 26
    [] l.k = "decl" -> 48
    [] OTHER -> 8

RECURSIVE LineStart(_, _)
\* The position in the file text of the first character of line i.
LineStart(lines, i) ==
  IF i <= 1 THEN 0 ELSE LineStart(lines, i - 1) + LineLen(lines[i - 1]) + 1

KeywordLen(kind) ==
  CASE kind = "function" -> 9
    [] kind = "class" -> 6
    [] kind = "interface" -> 10
    [] kind = "type" -> 5
    [] kind = "enum" -> 5
    [] OTHER -> 0

RECURSIVE DeclaratorCol(_, _)
\* The column of declarator d in a variable statement: after the export
\* modifiers and the keyword, and after the declarators before it.
DeclaratorCol(l, d) ==
  IF d <= 1 THEN 7 * l.exp + Len(l.kw) + 1
  ELSE DeclaratorCol(l, d - 1) + Len(l.decls[d - 1].name) + 6

\* node.getStart(): the first token of the declaration node.  A variable
\* declaration node starts at its name; every other declaration at its first
\* modifier or keyword.
NodeStart(lines, node) ==
  LET l == lines[node.l]
  IN LineStart(lines, node.l)
       + (IF l.kind = "variable" THEN DeclaratorCol(l, node.d) ELSE 0)

\* The position of the name token of the declaration.
NameStart(lines, node) ==
  LET l == lines[node.l]
  IN NodeStart(lines, node)
       + (IF l.kind = "variable" THEN 0
          ELSE 7 * l.exp + l.mods + KeywordLen(l.kind))

DeclarationSyntaxKind(kind) ==
  CASE kind = "function" -> "FunctionDeclaration"
    [] kind = "class" -> "ClassDeclaration"
    [] kind = "variable" -> "VariableDeclaration"
    [] kind = "interface" -> "InterfaceDeclaration"
    [] kind = "type" -> "TypeAliasDeclaration"
    [] OTHER -> "EnumDeclaration"

Ref(file, l, slot, d, j, parent, start) ==
  [file |-> file, l |-> l, slot |-> slot, d |-> d, j |-> j,
   parent |-> parent, start |-> start]

OwnRef(g, i, path, node) ==
  IF g.path = path /\ i = node.l
  THEN <<Ref(g.path, i, "decl", node.d, 0,
             DeclarationSyntaxKind(g.lines[i].kind), NameStart(g.lines, node))>>
  ELSE <<>>

ImportRefsAt(g, i, js, start) ==
  [x \in DOMAIN js |-> Ref(g.path, i, "import", 0, js[x], "ImportSpecifier", start + 9)]

UseRefsAt(g, i, slot, d, us, js, start) ==
  [x \in DOMAIN js |->
     Ref(g.path, i, slot, d, js[x], us[js[x]].parent, start + us[js[x]].col)]

\* The uses of identifier n among the uses us written in line i of g.
UseRefs(g, i, slot, d, us, n, start) ==
  UseRefsAt(g, i, slot, d, us, Where([j \in DOMAIN us |-> us[j].name = n]), start)

BoundRefs(g, i, l, n, start) ==
  CASE l.k = "import" ->
         ImportRefsAt(g, i, Where([j \in DOMAIN l.names |-> l.names[j] = n]), start)
    [] l.k = "decl" ->
         Flatten([d \in DOMAIN l.decls |->
                    UseRefs(g, i, "body", d, l.decls[d].uses, n, start)])
    [] l.k = "use" -> UseRefs(g, i, "use", 0, l.uses, n, start)
    [] OTHER -> <<>>

\* The references to the declaration (path, node), named n, found in line i
\* of the file g: the declaration's own name token, a named import of it, the
\* identifiers bound to it in declaration bodies and expression statements.
\* bound says whether the identifier n written in g is bound to the
\* declaration.
RefsInLine(g, i, path, node, n, bound) ==
  OwnRef(g, i, path, node)
    \o (IF bound THEN BoundRefs(g, i, g.lines[i], n, LineStart(g.lines, i))
        ELSE <<>>)

RefsOfBound(g, path, node, n, bound) ==
  Flatten([i \in DOMAIN g.lines |-> RefsInLine(g, i, path, node, n, bound)])

RefsOfName(fs, path, node, g, n) ==
  RefsOfBound(g, path, node, n, Binding(fs, g, n) = [path |-> path, node |-> node])

RefsInFile(fs, path, node, g) ==
  RefsOfName(fs, path, node, g, GetFile(fs, path).lines[node.l].decls[node.d].name)

\* The files of the project, the one at path first.
DeclaringFirst(fs, path) ==
  <<GetFile(fs, path)>> \o SelectSeq(fs, LAMBDA f : f.path # path)

RefsInFiles(fs, path, node, order) ==
  Flatten([i \in DOMAIN order |-> RefsInFile(fs, path, node, order[i])])

\* node.findReferences(): every reference to the declaration, the declaring
\* file first, then the other files in project order.
ProviderFindReferences(fs, path, node) ==
  RefsInFiles(fs, path, node, DeclaringFirst(fs, path))

----------------------------------------------------------------------------
(* src/core/project.ts: the Project Index.                                 *)

\* project.saveSync(): every in-memory file is written to disk, creating the
\* directories it needs.  The files on disk afterwards.
saveAll(fs, dsk) ==
  {f \in dsk : ~HasFile(fs, f.path)} \cup Range(fs)

saveAllDirs(fs, dirs) ==
  dirs \cup UNION {Ancestors(PathDirname(fs[i].path)) : i \in DOMAIN fs}

\* project.createSourceFile(path, content, {overwrite: true})
addSourceFile(fs, path, lines) ==
  IF HasFile(fs, path) THEN SetLines(fs, path, lines)
  ELSE Append(fs, File(path, lines))

\* fs.existsSync(path)
existsSync(dsk, dirs, path) ==
  \/ \E f \in dsk : f.path = path
  \/ path \in dirs

----------------------------------------------------------------------------
(* src/services/search.service.ts                                          *)

\* The options of a search; an unset option is NoStr, "" or "any" (exported
\* is "true", "false" or "any").
SearchOptions(name, kind, exported, file) ==
  [name |-> name, kind |-> kind, exported |-> exported, file |-> file]

NameOnly(name) == SearchOptions(name, "", "any", NoStr)

FileOnly(file) == SearchOptions(NoStr, "", "any", file)

\* A variant that tells upper and lower case apart.
nameMatchesCaseSensitive(entityName, term) ==
  Includes(entityName, term)

\* e.name.toLowerCase().includes(options.name.toLowerCase())
nameMatches(entityName, term) ==
  Includes(ToLowerCase(entityName), ToLowerCase(term))

\* The files a search with this file filter looks at.
FilesMatching(fs, file) ==
  SelectSeq(fs, LAMBDA f : file = NoStr \/ Includes(f.path, file))

EntitiesOfFiles(fs) ==
  Flatten([i \in DOMAIN fs |-> extractEntitiesFromFile(fs[i])])

EntityMatches(e, options) ==
  /\ options.name = NoStr \/ nameMatches(e.name, options.name)
  /\ options.kind = "" \/ e.kind = options.kind
  /\ options.exported = "any" \/ e.isExported = (options.exported = "true")

FilterEntities(allEntities, options) ==
  SelectSeq(allEntities, LAMBDA e : EntityMatches(e, options))

search(fs, options) ==
  [entities |-> FilterEntities(EntitiesOfFiles(FilesMatching(fs, options.file)),
                               options),
   totalFiles |-> Len(fs)]

----------------------------------------------------------------------------
(* src/services/rename.service.ts                                          *)

\* isRenameable(node): the handle denotes a declaration of one of the six
\* kinds.
isRenameable(fs, path, node) ==
  /\ HasFile(fs, path)
  /\ node.l \in DOMAIN GetFile(fs, path).lines
  /\ GetFile(fs, path).lines[node.l].k = "decl"
  /\ GetFile(fs, path).lines[node.l].kind \in Range(EntityKinds)
  /\ node.d \in DOMAIN GetFile(fs, path).lines[node.l].decls

findReferences(fs, path, node) ==
  IF ~isRenameable(fs, path, node) THEN <<>>
  ELSE ProviderFindReferences(fs, path, node)

\* The distinct elements of a sequence in the order of their first
\* occurrence (the insertion order of a JavaScript Set).
RECURSIVE Distinct(_, _)
Distinct(s, acc) ==
  IF Len(s) = 0 THEN acc
  ELSE Distinct(Tail(s),
                IF \E i \in DOMAIN acc : acc[i] = Head(s) THEN acc
                ELSE Append(acc, Head(s)))

PreviewLocations(fs, references) ==
  [i \in DOMAIN references |->
     [file |-> references[i].file, line |-> references[i].l,
      text |-> GetFile(fs, references[i].file).lines[references[i].l]]]

previewRename(fs, entity) ==
  PreviewLocations(fs, findReferences(fs, entity.filePath, entity.node))

\* A variant that leaves out the file of the declaration's own name token.
renameFilesModifiedUsagesOnly(references) ==
  Distinct([i \in DOMAIN SelectSeq(references, LAMBDA r : r.slot # "decl") |->
              SelectSeq(references, LAMBDA r : r.slot # "decl")[i].file], <<>>)

\* The files the rename result reports: the file of every reference.
renameFilesModified(references) ==
  Distinct([i \in DOMAIN references |-> references[i].file], <<>>)

\* A variant that counts the files of the references, not the references.
renameReferencesUpdatedPerFile(renameable, references) ==
  IF renameable THEN Len(renameFilesModified(references)) ELSE 0

\* referencesUpdated of the rename result.
renameReferencesUpdated(renameable, references) ==
  IF renameable THEN Len(references) ELSE 0

\* node.rename(newName) of the provider: the text of every reference becomes
\* newName (the declaration's name token, the named imports of it, the
\* identifiers bound to it).
ProviderRenameLine(l, R, newName) ==
  [l EXCEPT
     !.decls = [d \in DOMAIN l.decls |->
        [name |-> IF \E r \in R : r.slot = "decl" /\ r.d = d
                  THEN newName ELSE l.decls[d].name,
         uses |-> [j \in DOMAIN l.decls[d].uses |->
                     IF \E r \in R : r.slot = "body" /\ r.d = d /\ r.j = j
                     THEN [l.decls[d].uses[j] EXCEPT !.name = newName]
                     ELSE l.decls[d].uses[j]]]],
     !.names = [j \in DOMAIN l.names |->
                  IF \E r \in R : r.slot = "import" /\ r.j = j
                  THEN newName ELSE l.names[j]],
     !.uses = [j \in DOMAIN l.uses |->
                 IF \E r \in R : r.slot = "use" /\ r.j = j
                 THEN [l.uses[j] EXCEPT !.name = newName]
                 ELSE l.uses[j]]]

ProviderRename(fs, references, newName) ==
  [i \in DOMAIN fs |->
     File(fs[i].path,
          [k \in DOMAIN fs[i].lines |->
             ProviderRenameLine(fs[i].lines[k],
                                {r \in Range(references) :
                                   r.file = fs[i].path /\ r.l = k},
                                newName)])]

IsBlank(s) == \A i \in DOMAIN s : s[i] = " "

\* Whether the provider's rename takes the name or throws.  It throws for a
\* blank name; RenameService hands it any other string unchecked, and for a
\* string that is no identifier either outcome is allowed for here.
ProviderRenameOutcomes(newName) ==
  IF IsBlank(newName) THEN {FALSE}
  ELSE IF IsIdentifier(newName) THEN {TRUE}
  ELSE {TRUE, FALSE}

RenameOutcome(fs, entity, newName, accepts, references, renameable) ==
  [threw |-> renameable /\ ~accepts,
   saved |-> ~(renameable /\ ~accepts),
   files |-> IF renameable /\ accepts
             THEN ProviderRename(fs, references, newName) ELSE fs,
   result |-> [oldName |-> entity.name,
               newName |-> newName,
               filesModified |-> renameFilesModified(references),
               referencesUpdated |->
                 renameReferencesUpdated(renameable, references)]]

\* RenameService.rename(entity, newName) on the files fs, when the provider
\* takes the name (accepts) or throws: the files afterwards, whether the call
\* threw, whether it saved, and the result it returned.
rename(fs, entity, newName, accepts) ==
  RenameOutcome(fs, entity, newName, accepts,
                findReferences(fs, entity.filePath, entity.node),
                isRenameable(fs, entity.filePath, entity.node))

----------------------------------------------------------------------------
(* src/services/extract.service.ts                                         *)

\* text.startsWith("export "): the captured text begins with an export token,
\* on the declaration itself or put in front of its first comment line.
StartsWithExport(text) == text[1].exp >= 1

\* "export " + text
PrependExport(text) == [text EXCEPT ![1].exp = @ + 1]

EnsureExport(text) == IF StartsWithExport(text) THEN text ELSE PrependExport(text)

\* getFullEntityText(node, name): for a declarator of a statement that
\* declares several variables, a statement of its own with the same keyword;
\* for everything else the trimmed full text of the statement, with "export "
\* put before it unless it starts with it.
getFullEntityText(lines, node) ==
  IF lines[node.l].kind = "variable" /\ Len(lines[node.l].decls) > 1
  THEN <<VarLine(1, lines[node.l].kw, <<lines[node.l].decls[node.d]>>)>>
  ELSE EnsureExport(TrimmedFullText(lines, node.l))

\* The identifiers inside the node: its name and the identifiers it uses.
UsedIdentifiers(declarator) ==
  {declarator.name} \cup {declarator.uses[j].name : j \in DOMAIN declarator.uses}

\* Whether the import declaration l brings in one of the used identifiers, as
\* a named, default or namespace import.
ImportNeeded(l, used) ==
  \/ \E j \in DOMAIN l.names : l.names[j] \in used
  \/ l.def # NoStr /\ l.def \in used
  \/ l.ns # NoStr /\ l.ns \in used

NeededImportLines(lines, used) ==
  Where([i \in DOMAIN lines |-> lines[i].k = "import" /\ ImportNeeded(lines[i], used)])

ImportTexts(lines, idx) == [x \in DOMAIN idx |-> TrimmedFullText(lines, idx[x])]

\* getRequiredImports(node, sourceFile): importDecl.getFullText().trim() of
\* every import declaration of the origin file the node needs.
getRequiredImports(lines, node) ==
  ImportTexts(lines,
              NeededImportLines(lines,
                                UsedIdentifiers(lines[node.l].decls[node.d])))

\* The index of the last line that starts with "import ", 0 when none does.
LastImportIndex(lines) == MaxOf({i \in DOMAIN lines : lines[i].k = "import"})

\* The last line of the import declaration that starts at line i.
RECURSIVE ImportEnd(_, _)
ImportEnd(lines, i) ==
  IF i < Len(lines) /\ lines[i + 1].k = "cont" THEN ImportEnd(lines, i + 1) ELSE i

\* The last line of the last import declaration, 0 when there is none: where
\* the provider's addImportDeclaration puts a new declaration.
LastImportEnd(lines) ==
  IF LastImportIndex(lines) = 0 THEN 0
  ELSE ImportEnd(lines, LastImportIndex(lines))

\* newImports.filter((imp) => !existingContent.includes(imp))
ImportsToAdd(existing, newImports) ==
  SelectSeq(newImports, LAMBDA imp : ~Includes(existing, imp))

\* lines.splice(at, 0, ...added)
InsertAfter(lines, at, added) ==
  SubSeq(lines, 1, at) \o added \o SubSeq(lines, at + 1, Len(lines))

WithImports(existing, toAdd, lastImportIndex) ==
  IF Len(toAdd) = 0 THEN existing
  ELSE IF lastImportIndex >= 1
       THEN InsertAfter(existing, lastImportIndex, Flatten(toAdd))
  ELSE Flatten(toAdd) \o <<BlankLine>> \o existing

mergeContent(existing, newEntityText, newImports) ==
  WithImports(existing, ImportsToAdd(existing, newImports),
              LastImportIndex(existing))
    \o <<BlankLine>> \o newEntityText

createFileContent(entityText, imports) ==
  (IF Len(imports) > 0 THEN Flatten(imports) \o <<BlankLine>> ELSE <<>>)
    \o entityText \o <<BlankLine>>

\* The project after the destination has been written: merged into the
\* loaded file at targetPath, or added as a new file.
Materialize(fs, targetPath, entityText, requiredImports) ==
  IF HasFile(fs, targetPath)
  THEN SetLines(fs, targetPath,
                mergeContent(GetFile(fs, targetPath).lines, entityText,
                             requiredImports))
  ELSE addSourceFile(fs, targetPath, createFileContent(entityText, requiredImports))

ResolveOnDisk(dsk, dirs, resolved) ==
  IF EndsWith(resolved, TsExt) \/ EndsWith(resolved, TsxExt) THEN resolved
  ELSE IF existsSync(dsk, dirs, resolved \o TsExt) THEN resolved \o TsExt
  ELSE IF existsSync(dsk, dirs, resolved \o TsxExt) THEN resolved \o TsxExt
  ELSE IF existsSync(dsk, dirs, PathJoin(resolved, IndexTs))
       THEN PathJoin(resolved, IndexTs)
  ELSE resolved

resolveModulePath(dsk, dirs, fromPath, moduleSpecifier) ==
  IF ~StartsWith(moduleSpecifier, Dot) THEN moduleSpecifier
  ELSE ResolveOnDisk(dsk, dirs, PathResolve(PathDirname(fromPath), moduleSpecifier))

\* The module specifier written for an import of the file at targetPath in
\* the file at fromPath.
SpecifierTo(fromPath, targetPath) ==
  removeExtension(getRelativePath(fromPath, targetPath))

\* The import declarations of the file that come from the origin file and
\* name the entity.
ImportsOfEntity(file, dsk, dirs, entity) ==
  Where([i \in DOMAIN file.lines |->
           /\ file.lines[i].k = "import"
           /\ resolveModulePath(dsk, dirs, file.path, file.lines[i].spec)
                = entity.filePath
           /\ \E j \in DOMAIN file.lines[i].names :
                file.lines[i].names[j] = entity.name])

\* namedImports.filter((ni) => ni.getName() !== entity.name).length === 0
OnlyImports(l, name) == \A j \in DOMAIN l.names : l.names[j] = name

\* namedImports.find((ni) => ni.getName() === name)?.remove()
RemoveFirst(names, name) ==
  SubSeq(names, 1, IndexOf(names, name) - 1)
    \o SubSeq(names, IndexOf(names, name) + 1, Len(names))

RewiredLine(l, name, newSpec) ==
  IF OnlyImports(l, name) THEN [l EXCEPT !.spec = newSpec]
  ELSE [l EXCEPT !.names = RemoveFirst(l.names, name)]

\* file.addImportDeclaration(...), once for every rewired declaration that
\* kept other names: the new declarations go after the last import.
AddedImports(lines, hits, name, newSpec) ==
  [x \in DOMAIN SelectSeq(hits, LAMBDA i : ~OnlyImports(lines[i], name)) |->
     ImportLine(<<name>>, newSpec)]

RewireLines(lines, hits, name, newSpec) ==
  InsertAfter([i \in DOMAIN lines |->
                 IF i \in Range(hits) THEN RewiredLine(lines[i], name, newSpec)
                 ELSE lines[i]],
              LastImportEnd(lines),
              AddedImports(lines, hits, name, newSpec))

RewireFile(file, hits, name, newSpec) ==
  [file |-> File(file.path, RewireLines(file.lines, hits, name, newSpec)),
   updated |-> [x \in DOMAIN hits |-> file.path]]

\* What updateSourceFileImports does to one file of the project.
UpdateFileImports(file, dsk, dirs, entity, targetPath) ==
  IF file.path = entity.filePath \/ file.path = targetPath
  THEN [file |-> file, updated |-> <<>>]
  ELSE RewireFile(file, ImportsOfEntity(file, dsk, dirs, entity), entity.name,
                  SpecifierTo(file.path, targetPath))

CollectUpdates(rs) ==
  [files |-> [i \in DOMAIN rs |-> rs[i].file],
   updated |-> Flatten([i \in DOMAIN rs |-> rs[i].updated])]

updateSourceFileImports(fs, dsk, dirs, entity, targetPath) ==
  CollectUpdates([i \in DOMAIN fs |->
                    UpdateFileImports(fs[i], dsk, dirs, entity, targetPath)])

\* lines without the lines lo..hi
RemoveLines(lines, lo, hi) == SubSeq(lines, 1, lo - 1) \o SubSeq(lines, hi + 1, Len(lines))

RemoveDeclarator(l, d) ==
  [l EXCEPT !.decls = SubSeq(l.decls, 1, d - 1) \o SubSeq(l.decls, d + 1, Len(l.decls))]

\* removeEntityFromSource(node): a declarator with siblings is taken out of
\* its statement; otherwise the statement goes, with the comments that are
\* its leading trivia.
removeEntityFromSource(lines, node) ==
  IF lines[node.l].kind = "variable" /\ Len(lines[node.l].decls) > 1
  THEN [lines EXCEPT ![node.l] = RemoveDeclarator(lines[node.l], node.d)]
  ELSE RemoveLines(lines, SkipBlank(lines, TriviaStart(lines, node.l), node.l),
                   node.l)

\* A variant that adds the name whether or not it is named already.
WithNamedImportAgain(l, entityName) ==
  [l EXCEPT !.names = Append(l.names, entityName)]

\* existingImport.addNamedImport(entityName) unless it is named already
WithNamedImport(l, entityName) ==
  IF \E j \in DOMAIN l.names : l.names[j] = entityName THEN l
  ELSE [l EXCEPT !.names = Append(l.names, entityName)]

AddImportAt(lines, existing, entityName, relativePath) ==
  IF existing # 0
  THEN [lines EXCEPT ![existing] = WithNamedImport(lines[existing], entityName)]
  ELSE InsertAfter(lines, LastImportEnd(lines),
                   <<ImportLine(<<entityName>>, relativePath)>>)

\* addImportToSource(sourceFile, entityName, targetPath), relativePath being
\* the module specifier of the destination.
addImportToSource(lines, entityName, relativePath) ==
  AddImportAt(lines,
              MinOf({i \in DOMAIN lines :
                       lines[i].k = "import" /\ lines[i].spec = relativePath}),
              entityName, relativePath)

\* The origin file after removeEntityFromSource and addImportToSource.
OriginAfter(origin, entity, targetPath) ==
  addImportToSource(removeEntityFromSource(origin.lines, entity.node),
                    entity.name, SpecifierTo(origin.path, targetPath))

ExtractResult(entity, targetPath, importsUpdated) ==
  [entityName |-> entity.name, sourcePath |-> entity.filePath,
   targetPath |-> targetPath, importsUpdated |-> importsUpdated]

\* The outcome of extract once every file has been edited: project.saveAll()
\* and the result.
ExtractSaved(fs, dsk, dirs, entity, targetPath, importsUpdated) ==
  [threw |-> FALSE,
   files |-> fs,
   disk |-> saveAll(fs, dsk),
   dirs |-> saveAllDirs(fs, dirs),
   result |-> ExtractResult(entity, targetPath, importsUpdated)]

ExtractRewired(rewired, origin, dsk, dirs, entity, targetPath) ==
  ExtractSaved(SetLines(rewired.files, origin.path,
                        OriginAfter(origin, entity, targetPath)),
               dsk, dirs, entity, targetPath, rewired.updated)

ExtractInto(fs, dsk, dirs, entity, targetPath) ==
  ExtractRewired(
    updateSourceFileImports(
      Materialize(fs, targetPath,
                  getFullEntityText(GetFile(fs, entity.filePath).lines, entity.node),
                  getRequiredImports(GetFile(fs, entity.filePath).lines, entity.node)),
      dsk, dirs, entity, targetPath),
    GetFile(fs, entity.filePath), dsk, dirs, entity, targetPath)

\* The outcome of extract when the destination is the origin file itself:
\* targetFile.replaceWithText(newContent) has replaced the text of the origin
\* file, so the provider has forgotten the declaration handle, and
\* removeEntityFromSource(node) throws on it.  The destination has been
\* merged and the importers rewired by then; nothing is saved.
ExtractForgotten(rewired, dsk, dirs, entity, targetPath) ==
  [threw |-> TRUE,
   files |-> rewired.files,
   disk |-> dsk,
   dirs |-> dirs,
   result |-> ExtractResult(entity, targetPath, rewired.updated)]

ExtractOntoOrigin(fs, dsk, dirs, entity, targetPath) ==
  ExtractForgotten(
    updateSourceFileImports(
      Materialize(fs, targetPath,
                  getFullEntityText(GetFile(fs, entity.filePath).lines, entity.node),
                  getRequiredImports(GetFile(fs, entity.filePath).lines, entity.node)),
      dsk, dirs, entity, targetPath),
    dsk, dirs, entity, targetPath)

\* path.isAbsolute(targetPath) ? targetPath : path.resolve(rootPath, targetPath)
AbsoluteTargetPath(root, targetPath) ==
  IF IsAbsolute(targetPath) THEN targetPath ELSE PathResolve(root, targetPath)

\* ExtractService.extract(entity, targetPath) on the files fs, the disk dsk
\* and its directories dirs: the files, the disk and the directories
\* afterwards, and the result.  The first thing it does is
\* ensureDirectoryExists; nothing in it tests the target path.
extract(fs, dsk, dirs, root, entity, targetPath) ==
  IF entity.filePath = AbsoluteTargetPath(root, targetPath)
  THEN ExtractOntoOrigin(fs, dsk,
                         ensureDirectoryExists(dirs, AbsoluteTargetPath(root, targetPath)),
                         entity, AbsoluteTargetPath(root, targetPath))
  ELSE ExtractInto(fs, dsk,
                   ensureDirectoryExists(dirs, AbsoluteTargetPath(root, targetPath)),
                   entity, AbsoluteTargetPath(root, targetPath))

\* SearchService.findByName(name): the first entity a search for the name
\* returns whose name is exactly the name; an empty sequence when none is.
FirstOf(s) == IF Len(s) = 0 THEN <<>> ELSE <<s[1]>>

findByName(fs, name) ==
  FirstOf(SelectSeq(search(fs, NameOnly(name)).entities, LAMBDA e : e.name = name))

----------------------------------------------------------------------------
(* src/services/unused.service.ts                                          *)

MainTs == <<"m", "a", "i", "n", ".", "t", "s">>

\* The width of the window after the declaration start in which a same-file
\* reference is taken for the definition itself.
DefinitionTolerance == 10

Abs(x) == IF x < 0 THEN 0 - x ELSE x

\* entity.filePath.endsWith("index.ts") || entity.filePath.endsWith("main.ts")
IsEntryPoint(filePath) == EndsWith(filePath, IndexTs) \/ EndsWith(filePath, MainTs)

\* getReferences(node): the references the provider finds for a declaration
\* of one of the six kinds.
getReferences(fs, entity) ==
  IF ~isRenameable(fs, entity.filePath, entity.node) THEN <<>>
  ELSE ProviderFindReferences(fs, entity.filePath, entity.node)

\* A variant that takes a reference at such a position in any file for the
\* definition.
IsDefinitionSiteAnyFile(entity, nodeStart, ref) ==
  Abs(ref.start - nodeStart) < DefinitionTolerance

\* refFile === entity.filePath && Math.abs(refStart - nodeStart) < 10
IsDefinitionSite(entity, nodeStart, ref) ==
  /\ ref.file = entity.filePath
  /\ Abs(ref.start - nodeStart) < DefinitionTolerance

ExternalReferences(entity, nodeStart, references) ==
  SelectSeq(references, LAMBDA r : ~IsDefinitionSite(entity, nodeStart, r))

SameFileRefs(entity, references) ==
  SelectSeq(references, LAMBDA r : r.file = entity.filePath)

\* The parent of the reference is a variable, function or class declaration.
IsDeclarationParent(ref) ==
  ref.parent \in {"VariableDeclaration", "FunctionDeclaration", "ClassDeclaration"}

RealUsages(sameFileRefs) ==
  SelectSeq(sameFileRefs, LAMBDA r : ~IsDeclarationParent(r))

Live == [unused |-> FALSE, reason |-> ""]

Unused(reason) == [unused |-> TRUE, reason |-> reason]

ReasonExported == "Exported but never imported or used elsewhere"
ReasonNotExported == "Not exported and never used in its file"
ReasonDeclared == "Declared but never used"

\* checkIfUnused after the definition itself has been filtered out.
Classify(entity, externalReferences) ==
  IF Len(externalReferences) = 0
  THEN Unused(IF entity.isExported THEN ReasonExported ELSE ReasonNotExported)
  ELSE IF /\ ~entity.isExported
          /\ Len(SameFileRefs(entity, externalReferences)) = Len(externalReferences)
          /\ Len(RealUsages(SameFileRefs(entity, externalReferences))) = 0
       THEN Unused(ReasonDeclared)
  ELSE Live

checkIfUnused(fs, entity) ==
  IF IsEntryPoint(entity.filePath) THEN Live
  ELSE Classify(entity,
                ExternalReferences(
                  entity,
                  NodeStart(GetFile(fs, entity.filePath).lines, entity.node),
                  getReferences(fs, entity)))

UnusedResults(entities, checks, idx) ==
  [x \in DOMAIN idx |->
     [entity |-> entities[idx[x]], reason |-> checks[idx[x]].reason]]

ReportUnused(entities, checks) ==
  UnusedResults(entities, checks, Where([i \in DOMAIN checks |-> checks[i].unused]))

CheckAll(fs, entities) ==
  ReportUnused(entities, [i \in DOMAIN entities |-> checkIfUnused(fs, entities[i])])

\* findUnused(): every entity of every file for which checkIfUnused says
\* unused, with the reason.
findUnused(fs) == CheckAll(fs, EntitiesOfFiles(fs))

\* getReferences(node) when node.findReferences() throws or does not: the
\* catch swallows the exception and the empty list is returned.
getReferencesCaught(fs, entity, throws) ==
  IF throws THEN <<>> ELSE getReferences(fs, entity)

\* checkIfUnused(entity) on the list getReferences has returned.
CheckWith(fs, entity, references) ==
  IF IsEntryPoint(entity.filePath) THEN Live
  ELSE Classify(entity,
                ExternalReferences(
                  entity,
                  NodeStart(GetFile(fs, entity.filePath).lines, entity.node),
                  references))

\* findUnused() when the provider throws for the entities at the positions
\* failing of the scan.
ScanAll(fs, entities, failing) ==
  ReportUnused(entities,
               [i \in DOMAIN entities |->
                  CheckWith(fs, entities[i],
                            getReferencesCaught(fs, entities[i], i \in failing))])

findUnusedFailing(fs, failing) == ScanAll(fs, EntitiesOfFiles(fs), failing)

----------------------------------------------------------------------------
(* src/services/imports.service.ts                                         *)

\* The identifier n written in file g is not declared in g, not imported
\* into g and no global: the provider reports "Cannot find name 'n'." for it.
Unresolved(fs, g, n) ==
  /\ Len(DeclsNamed(g, n)) = 0
  /\ \A i \in DOMAIN g.lines :
       g.lines[i].k = "import"
         => /\ \A j \in DOMAIN g.lines[i].names : LocalName(g.lines[i], j) # n
            /\ g.lines[i].def # n
            /\ g.lines[i].ns # n
  /\ GlobalBinding(fs, n) = NoBinding

Diagnostic(message, file, line, column, name) ==
  [message |-> message, file |-> file, line |-> line, column |-> column,
   name |-> name]

NameDiagnosticsOf(g, i, us) ==
  [x \in DOMAIN us |->
     Diagnostic("Cannot find name", g.path, i, us[x].col + 1, us[x].name)]

\* The diagnostics of the identifiers us written in line i of file g.
NameDiagnostics(fs, g, i, us) ==
  NameDiagnosticsOf(g, i, SelectSeq(us, LAMBDA u : Unresolved(fs, g, u.name)))

\* The identifiers written in a line, in the order of the text.
UsesOfLine(l) ==
  IF l.k = "decl" THEN Flatten([d \in DOMAIN l.decls |-> l.decls[d].uses])
  ELSE l.uses

LineDiagnostics(fs, g, i) ==
  IF g.lines[i].k = "import"
  THEN IF ProviderResolve(fs, g.path, g.lines[i].spec) = NoStr
       THEN <<Diagnostic("Cannot find module", g.path, i, 1, g.lines[i].spec)>>
       ELSE <<>>
  ELSE NameDiagnostics(fs, g, i, UsesOfLine(g.lines[i]))

\* sourceFile.getPreEmitDiagnostics(): the errors of the file, in the order
\* of the text.
getPreEmitDiagnostics(fs, g) ==
  Flatten([i \in DOMAIN g.lines |-> LineDiagnostics(fs, g, i)])

\* messageStr.match(/Cannot find name '(\w+)'/): the quoted name is made of
\* word characters only.
CannotFindMatch(d) ==
  /\ d.message = "Cannot find name"
  /\ Len(d.name) > 0
  /\ \A i \in DOMAIN d.name : d.name[i] \in WordChars

\* messageStr.match(/Cannot find module '([^']+)'/)
ModuleNotFoundMatch(d) ==
  /\ d.message = "Cannot find module"
  /\ Len(d.name) > 0
  /\ \A i \in DOMAIN d.name : d.name[i] # "'"

ImportError(d) ==
  [file |-> d.file, line |-> d.line, column |-> d.column, message |-> d.message,
   missingName |-> d.name]

\* searchResult.entities.filter((e) => e.name === missingName && e.isExported
\*   && e.filePath !== sourceFile.getFilePath())
ExactMatches(entities, missingName, filePath) ==
  SelectSeq(entities,
            LAMBDA e : e.name = missingName /\ e.isExported /\ e.filePath # filePath)

NoEntity == <<>>

Fixable(error, candidates) ==
  [error |-> error, candidates |-> candidates, selectedCandidate |-> NoEntity]

Unfixable(error, reason) == [error |-> error, reason |-> reason]

NameAnalysis(d, exactMatches) ==
  IF Len(exactMatches) > 0
  THEN [fixable |-> <<Fixable(ImportError(d), exactMatches)>>, unfixable |-> <<>>]
  ELSE [fixable |-> <<>>,
        unfixable |-> <<Unfixable(ImportError(d), "No exported entity found")>>]

\* What analyzeImportErrors adds to its two lists for one diagnostic.
AnalyzeDiagnostic(fs, d) ==
  IF CannotFindMatch(d)
  THEN NameAnalysis(d, ExactMatches(search(fs, NameOnly(d.name)).entities,
                                    d.name, d.file))
  ELSE IF ModuleNotFoundMatch(d)
       THEN [fixable |-> <<>>,
             unfixable |-> <<Unfixable(ImportError(d), "Module not found")>>]
  ELSE [fixable |-> <<>>, unfixable |-> <<>>]

\* The diagnostics of every file, in project order.
AllDiagnostics(fs) ==
  Flatten([i \in DOMAIN fs |-> getPreEmitDiagnostics(fs, fs[i])])

CollectAnalysis(rs) ==
  [fixable |-> Flatten([i \in DOMAIN rs |-> rs[i].fixable]),
   unfixable |-> Flatten([i \in DOMAIN rs |-> rs[i].unfixable])]

AnalyzeAll(fs, ds) ==
  CollectAnalysis([i \in DOMAIN ds |-> AnalyzeDiagnostic(fs, ds[i])])

analyzeImportErrors(fs) == AnalyzeAll(fs, AllDiagnostics(fs))

\* A variant that takes the first candidate when none is selected.
SelectedCandidateFirst(fix) ==
  IF Len(fix.selectedCandidate) = 1 THEN fix.selectedCandidate
  ELSE IF Len(fix.candidates) >= 1 THEN <<fix.candidates[1]>>
  ELSE NoEntity

\* The candidate fixImport works with: the selected one, or the only one.
SelectedCandidate(fix) ==
  IF Len(fix.selectedCandidate) = 1 THEN fix.selectedCandidate
  ELSE IF Len(fix.candidates) = 1 THEN fix.candidates
  ELSE NoEntity

\* The erroring file with the import of the candidate: its name is added to
\* the import declaration from that module specifier, or a new declaration
\* is added.
FixedLines(lines, name, relativePath) ==
  AddImportAt(lines,
              MinOf({i \in DOMAIN lines :
                       lines[i].k = "import" /\ lines[i].spec = relativePath}),
              name, relativePath)

FixWith(fs, file, selected) ==
  IF Len(selected) = 0 \/ ~HasFile(fs, file) THEN [returned |-> FALSE, files |-> fs]
  ELSE [returned |-> TRUE,
        files |-> SetLines(fs, file,
                           FixedLines(GetFile(fs, file).lines, selected[1].name,
                                      SpecifierTo(file, selected[1].filePath)))]

\* fixImport(fix): what it returns and the files afterwards.
fixImport(fs, fix) == FixWith(fs, fix.error.file, SelectedCandidate(fix))

----------------------------------------------------------------------------
(* Names, paths and source files the specifications draw their projects    *)
(* from.                                                                   *)

Nf == <<"f">>
Ng == <<"g">>
Nh == <<"h">>
Nx == <<"x">>
NG == <<"G">>
Nfx == <<"f", "x">>
Nbad == <<"f", "-", "x">>
Nblank == <<" ">>
Ndollar == <<"f", "$">>

Root == <<"/", "r">>
Pa == <<"/", "r", "/", "a", ".", "t", "s">>
Pa2 == <<"/", "r", "/", "e", ".", "t", "s">>
Pc == <<"/", "r", "/", "c", ".", "t", "s">>
Pd == <<"/", "r", "/", "s", "/", "d", ".", "t", "s">>
Pm == <<"/", "r", "/", "m", ".", "t", "s">>

SpecA == <<".", "/", "a">>
SpecAjs == <<".", "/", "a", ".", "j", "s">>
SpecUpA == <<".", ".", "/", "a">>
SpecM == <<".", "/", "m">>

Call(name, col) == Use(name, "CallExpression", col)

\* The record of the last engine call: nothing has been called yet.
NoCall == [op |-> "none"]

DirsOf(fs) == UNION {Ancestors(PathDirname(fs[i].path)) : i \in DOMAIN fs}

----------------------------------------------------------------------------
(* The rename specification: projects with a function f declared in a.ts,  *)
(* imported and called from other files, and one session of the rename     *)
(* command on them: search, previewRename of a found entity, rename of it,  *)
(* search again.                                                           *)

MaxCalls == 2

MaxSearches == 2

\* a.ts: function f, optionally called in a.ts itself, and a constant g.
RenameFileA(selfUse, exported) ==
  File(Pa,
       <<DeclLine("function", IF exported THEN 1 ELSE 0, 0, Nf, <<>>)>>
         \o (IF selfUse THEN <<UseLine(<<Call(Nf, 0)>>)>> ELSE <<>>)
         \o <<VarLine(1, "const", <<Declarator(Ng, <<>>)>>)>>)

\* c.ts: imports f from a.ts and calls it n times.
RenameFileC(n) ==
  File(Pc, <<ImportLine(<<Nf>>, SpecA)>>
             \o [i \in 1..n |-> UseLine(<<Call(Nf, 0)>>)])

\* s/d.ts: imports f from a.ts and calls it in the body of h.
RenameFileD ==
  File(Pd, <<ImportLine(<<Nf>>, SpecUpA),
             DeclLine("function", 1, 0, Nh, <<Call(Nf, 30)>>)>>)

RenameProjects ==
  {<<RenameFileA(selfUse, exported)>>
     \o (IF n > 0 THEN <<RenameFileC(n - 1)>> ELSE <<>>)
     \o (IF withD THEN <<RenameFileD>> ELSE <<>>) :
     selfUse \in BOOLEAN, exported \in BOOLEAN, withD \in BOOLEAN,
     n \in 0..(MaxCalls + 1)}

RenameNames == {NG, Ng, Nfx, Nbad, Nblank}

InitRename ==
  /\ files \in RenameProjects
  /\ disk = Range(files)
  /\ diskDirs = DirsOf(files)
  /\ projectInstance = 1
  /\ last = NoCall
  /\ steps = 0

\* searchService.search({name}) at the start of the command and after it.
SearchOp ==
  /\ last.op \in {"none", "rename"}
  /\ steps < MaxSearches
  /\ \E name \in {NoStr, Nf} :
       last' = [op |-> "search", options |-> NameOnly(name),
                entities |-> search(files, NameOnly(name)).entities]
  /\ steps' = steps + 1
  /\ UNCHANGED <<files, disk, diskDirs, projectInstance>>

\* renameService.previewRename(entity) of an entity the search returned.
PreviewRenameOp ==
  /\ last.op = "search"
  /\ steps < MaxSearches
  /\ \E i \in DOMAIN last.entities :
       last' = [op |-> "previewRename", entity |-> last.entities[i],
                result |-> previewRename(files, last.entities[i])]
  /\ UNCHANGED <<files, disk, diskDirs, steps, projectInstance>>

\* renameService.rename(entity, newName) of the previewed entity.
RenameApply(r, entity, newName) ==
  /\ files' = r.files
  /\ disk' = IF r.saved THEN saveAll(r.files, disk) ELSE disk
  /\ diskDirs' = IF r.saved THEN saveAllDirs(r.files, diskDirs) ELSE diskDirs
  /\ last' = [op |-> "rename", entity |-> entity, newName |-> newName,
              threw |-> r.threw, result |-> r.result]

\* renameService.rename(entity, newName) of the previewed entity.
RenameOp ==
  /\ last.op = "previewRename"
  /\ \E newName \in RenameNames :
       \E accepts \in ProviderRenameOutcomes(newName) :
         RenameApply(rename(files, last.entity, newName, accepts),
                     last.entity, newName)
  /\ UNCHANGED <<steps, projectInstance>>

NextRename == SearchOp \/ PreviewRenameOp \/ RenameOp

SpecRename == InitRename /\ [][NextRename]_vars

----------------------------------------------------------------------------
(* Properties of rename, checked under SpecRename.                         *)

\* A step that is a call of rename.
IsRenameStep == last.op = "previewRename" /\ last'.op = "rename"

\* C2: rename(entity, newName) with a newName that is no syntactically valid
\* identifier fails with an error and mutates no file: every in-memory file
\* and every file on disk is the same as before the call.
C2_InvalidNameMutatesNothing ==
  [][(IsRenameStep /\ ~IsIdentifier(last'.newName))
       => (last'.threw /\ files' = files /\ disk' = disk)]_vars

\* The entity that rename renamed, as a search after the rename finds it: at
\* the same declaration, of the same kind, under the new name.
RenamedEntityFound(fs, entity, newName) ==
  \E i \in DOMAIN search(fs, NameOnly(newName)).entities :
    /\ search(fs, NameOnly(newName)).entities[i].name = newName
    /\ search(fs, NameOnly(newName)).entities[i].filePath = entity.filePath
    /\ search(fs, NameOnly(newName)).entities[i].node = entity.node
    /\ search(fs, NameOnly(newName)).entities[i].kind = entity.kind

\* C3: for every entity E and valid new name N, rename(E, N).referencesUpdated
\* equals the length of previewRename(E) computed immediately before the
\* rename, and a search({name: N}) made after the rename returns at least the
\* renamed entity.
C3_RenameCompleteness ==
  [][(IsRenameStep /\ IsIdentifier(last'.newName))
       => /\ ~last'.threw
          /\ last'.result.referencesUpdated = Len(last.result)
          /\ RenamedEntityFound(files', last.entity, last'.newName)]_vars

\* f of a.ts, referenced from three files, has been renamed to G: the result
\* counts its five or more references and a search for G finds it.
C3_Witness ==
  /\ last.op = "rename"
  /\ ~last.threw
  /\ last.entity.name = Nf
  /\ last.newName = NG
  /\ Len(last.result.filesModified) = 3
  /\ last.result.referencesUpdated >= 5
  /\ RenamedEntityFound(files, last.entity, NG)

\* The files that hold a reference of the entity other than the declaration's
\* own name token.
UsageFiles(fs, entity) ==
  {r.file : r \in {x \in Range(findReferences(fs, entity.filePath, entity.node)) :
                     x.slot # "decl"}}

\* C4 as stated: rename(E, N).filesModified is exactly the set of files that
\* contain a usage of E; the file that declares E is in filesModified only if
\* it also contains a usage of E other than the declaration's own name token.
C4_FilesModifiedAreUsageFiles ==
  [][(IsRenameStep /\ ~last'.threw)
       => Range(last'.result.filesModified) = UsageFiles(files, last.entity)]_vars

\* C4, amended: rename(E, N).filesModified is exactly the set of files that
\* hold at least one reference the provider returns for E, the references
\* previewRename lists, the declaration's own name token among them; each
\* file occurs once, and the file that declares E is always one of them.
C4_FilesModifiedAreReferenceFiles ==
  [][(IsRenameStep /\ ~last'.threw)
       => /\ Range(last'.result.filesModified)
               = {last.result[i].file : i \in DOMAIN last.result}
          /\ Cardinality(Range(last'.result.filesModified))
               = Len(last'.result.filesModified)
          /\ last.entity.filePath \in Range(last'.result.filesModified)]_vars

\* f of a.ts, never used in a.ts and used in c.ts and s/d.ts, has been
\* renamed: filesModified holds a.ts with the two files that use f.
C4_Witness ==
  /\ last.op = "rename"
  /\ ~last.threw
  /\ last.entity.name = Nf
  /\ last.newName = Nfx
  /\ \A i \in DOMAIN GetFile(files, Pa).lines : GetFile(files, Pa).lines[i].k # "use"
  /\ last.result.filesModified = <<Pa, Pc, Pd>>

----------------------------------------------------------------------------
(* The extract specification: projects in which a.ts and e.ts declare       *)
(* functions that use an import, other files import them from a.ts, and the *)
(* extract command is run on them up to MaxExtracts times.                  *)

MaxExtracts == 2

Nk == <<"k">>

Pb == <<"/", "r", "/", "b", ".", "t", "s">>
RelOb == <<"o", "/", "b", ".", "t", "s">>
RelObJs == <<"o", "/", "b", ".", "j", "s">>
Pob == <<"/", "r", "/", "o", "/", "b", ".", "t", "s">>
PobJs == <<"/", "r", "/", "o", "/", "b", ".", "j", "s">>

\* a.ts: imports x from ./m; functions f and h, both using x.
ExtractFileA(exported) ==
  File(Pa, <<ImportLine(<<Nx>>, SpecM),
             DeclLine("function", IF exported THEN 1 ELSE 0, 0, Nf, <<Call(Nx, 20)>>),
             DeclLine("function", 1, 0, Nh, <<Call(Nx, 20)>>)>>)

\* e.ts: the same import, optionally under a comment line, and function k.
ExtractFileE(commented) ==
  File(Pa2, (IF commented THEN <<CommentLine("c")>> ELSE <<>>)
              \o <<ImportLine(<<Nx>>, SpecM),
                   DeclLine("function", 1, 0, Nk, <<Call(Nx, 20)>>)>>)

\* c.ts: imports f from a.ts, the specifier written with or without the .js
\* extension, and calls it.
ExtractFileC(spec) ==
  File(Pc, <<ImportLine(<<Nf>>, spec), UseLine(<<Call(Nf, 0)>>)>>)

\* s/d.ts: imports f and h from a.ts in one declaration.
ExtractFileD ==
  File(Pd, <<ImportLine(<<Nf, Nh>>, SpecUpA),
             UseLine(<<Call(Nf, 0), Call(Nh, 4)>>)>>)

\* m.ts: the constant x.
FileM == File(Pm, <<VarLine(1, "const", <<Declarator(Nx, <<>>)>>)>>)

ExtractProjects ==
  {<<ExtractFileA(exported), ExtractFileE(commented), ExtractFileC(spec)>>
     \o (IF withD THEN <<ExtractFileD>> ELSE <<>>) \o <<FileM>> :
     exported \in BOOLEAN, commented \in BOOLEAN, spec \in {SpecA, SpecAjs},
     withD \in BOOLEAN}

ExtractNames == {Nf, Nh, Nk}

ExtractTargets == {Pb, RelOb, RelObJs}

InitExtract ==
  /\ files \in ExtractProjects
  /\ disk = Range(files)
  /\ diskDirs = DirsOf(files)
  /\ projectInstance = 1
  /\ last = NoCall
  /\ steps = 0

ExtractApply(r, entity, targetPath) ==
  /\ files' = r.files
  /\ disk' = r.disk
  /\ diskDirs' = r.dirs
  /\ last' = [op |-> "extract", entity |-> entity, targetPath |-> targetPath,
              threw |-> r.threw, result |-> r.result]
  /\ steps' = steps + 1
  /\ UNCHANGED projectInstance

\* The extract command on an entity that is not in the destination file
\* already.
ExtractFound(found, targetPath) ==
  /\ Len(found) = 1
  /\ found[1].filePath # AbsoluteTargetPath(Root, targetPath)
  /\ ExtractApply(extract(files, disk, diskDirs, Root, found[1], targetPath),
                  found[1], targetPath)

\* executeExtract(entityName, targetPath, {yes: true}): findByName, then
\* extractService.extract of the entity found.
ExtractOp ==
  /\ steps < MaxExtracts
  /\ \E entityName \in ExtractNames, targetPath \in ExtractTargets :
       ExtractFound(findByName(files, entityName), targetPath)

NextExtract == ExtractOp

SpecExtract == InitExtract /\ [][NextExtract]_vars

----------------------------------------------------------------------------
(* Properties of extract, checked under SpecExtract.                       *)

\* A step that is a call of extract.
IsExtractStep == steps' = steps + 1 /\ last'.op = "extract"

\* The target path ends in a recognized source extension.
HasSourceExtension(targetPath) ==
  EndsWith(targetPath, TsExt) \/ EndsWith(targetPath, TsxExt)

\* C1: extract(entity, targetPath) with a targetPath that does not end in .ts
\* or .tsx is rejected with an error before any mutation: no directory is
\* created on disk, no file of the Project Index is created or edited, and
\* nothing is saved.
C1_BadTargetRejected ==
  [][(IsExtractStep /\ ~HasSourceExtension(last'.targetPath))
       => /\ last'.threw
          /\ diskDirs' = diskDirs
          /\ files' = files
          /\ disk' = disk]_vars

\* File g has an import declaration that names n and whose relative module
\* specifier denotes the file at path.
ImportsFrom(fs, g, n, path) ==
  \E i \in DOMAIN g.lines :
    /\ g.lines[i].k = "import"
    /\ \E j \in DOMAIN g.lines[i].names : g.lines[i].names[j] = n
    /\ IsRelativeSpecifier(g.lines[i].spec)
    /\ ProviderResolve(fs, g.path, g.lines[i].spec) = path

\* The entities named n that search({file}) returns.
NamedInFile(fs, file, n) ==
  SelectSeq(search(fs, FileOnly(file)).entities, LAMBDA e : e.name = n)

\* C5: for an exported entity E in file A extracted to a new file B,
\* afterwards search({file: B}) contains an exported entity named E.name,
\* search({file: A}) contains no declaration named E.name, and every file
\* that imported E from A imports E from B through a relative specifier that
\* resolves to B.
C5_ExtractRoundTrip ==
  [][(/\ IsExtractStep
      /\ last'.entity.isExported
      /\ HasSourceExtension(last'.targetPath)
      /\ ~HasFile(files, last'.result.targetPath))
       => /\ \E i \in DOMAIN NamedInFile(files', last'.result.targetPath,
                                         last'.entity.name) :
               NamedInFile(files', last'.result.targetPath,
                           last'.entity.name)[i].isExported
          /\ Len(NamedInFile(files', last'.entity.filePath, last'.entity.name)) = 0
          /\ \A i \in DOMAIN files :
               (/\ files[i].path # last'.entity.filePath
                /\ ImportsFrom(files, files[i], last'.entity.name,
                               last'.entity.filePath))
                 => ImportsFrom(files', GetFile(files', files[i].path),
                                last'.entity.name, last'.result.targetPath)]_vars

\* The number of lines of the file that are this line.
Occurrences(lines, l) == Cardinality({i \in DOMAIN lines : lines[i] = l})

\* C6: extracting a second, different entity into an already existing target
\* file B never duplicates an import already present in B: each import
\* declaration B had before the merge occurs in B as often as before.
C6_MergeKeepsImportsOnce ==
  [][(/\ IsExtractStep
      /\ HasSourceExtension(last'.targetPath)
      /\ HasFile(files, last'.result.targetPath))
       => \A i \in DOMAIN GetFile(files, last'.result.targetPath).lines :
            GetFile(files, last'.result.targetPath).lines[i].k = "import"
              => Occurrences(GetFile(files', last'.result.targetPath).lines,
                             GetFile(files, last'.result.targetPath).lines[i])
                   = Occurrences(GetFile(files, last'.result.targetPath).lines,
                                 GetFile(files, last'.result.targetPath).lines[i])]_vars

----------------------------------------------------------------------------
(* The unused-detector specification: projects in which one file declares   *)
(* an entity f of some kind, exported or not, used or not in its own file   *)
(* and in c.ts, and findUnused is run on them.                              *)

Pindex == <<"/", "r", "/", "i", "n", "d", "e", "x", ".", "t", "s">>
Pmain == <<"/", "r", "/", "m", "a", "i", "n", ".", "t", "s">>
PindexTsx == <<"/", "r", "/", "i", "n", "d", "e", "x", ".", "t", "s", "x">>
PmainTsx == <<"/", "r", "/", "m", "a", "i", "n", ".", "t", "s", "x">>

Ny == <<"y">>

\* The lines after its declaration that use f in the file that declares it:
\* none, a call, or f as the initializer of the variable y.
SelfUseLines(selfUse) ==
  CASE selfUse = "call" -> <<UseLine(<<Call(Nf, 0)>>)>>
    [] selfUse = "init" ->
         <<VarLine(0, "const", <<Declarator(Ny, <<Use(Nf, "VariableDeclaration", 10)>>)>>)>>
    [] OTHER -> <<>>

\* The declaration of an entity named name of the kind.
EntityLine(kind, exported, name) ==
  IF kind = "variable"
  THEN VarLine(IF exported THEN 1 ELSE 0, "const", <<Declarator(name, <<>>)>>)
  ELSE DeclLine(kind, IF exported THEN 1 ELSE 0, 0, name, <<>>)

\* The column of the name token in the line of a declaration.
NameCol(kind, exported) ==
  (IF exported THEN 7 ELSE 0) + (IF kind = "variable" THEN 6 ELSE KeywordLen(kind))

\* The declaration of an entity that uses itself nine characters after its
\* name token, as in const f = x => f(x).
RecursiveLine(kind, exported, name) ==
  IF kind = "variable"
  THEN VarLine(IF exported THEN 1 ELSE 0, "const",
               <<Declarator(name, <<Call(name, NameCol(kind, exported) + 9)>>)>>)
  ELSE DeclLine(kind, IF exported THEN 1 ELSE 0, 0, name,
                <<Call(name, NameCol(kind, exported) + 9)>>)

\* The declaring file: the entity f, using itself or not, and the lines that
\* use it.
UnusedFileA(path, kind, exported, selfUse) ==
  File(path, <<IF selfUse = "recursive" THEN RecursiveLine(kind, exported, Nf)
               ELSE EntityLine(kind, exported, Nf)>>
               \o SelfUseLines(selfUse))

\* c.ts: nothing to do with f, or an import of f from the declaring file and
\* a call of it, or a call of f without an import (f as a global of a file
\* that is a script).
UnusedFileC(cUse, spec) ==
  CASE cUse = "import" -> <<File(Pc, <<ImportLine(<<Nf>>, spec), UseLine(<<Call(Nf, 0)>>)>>)>>
    [] cUse = "global" -> <<File(Pc, <<UseLine(<<Call(Nf, 0)>>)>>)>>
    [] OTHER -> <<File(Pc, <<EntityLine("variable", TRUE, Nh)>>)>>

SpecifierOf(path) == <<".", "/">> \o removeExtension(PathBasename(path))

UnusedProjects ==
  {<<UnusedFileA(path, EntityKinds[k], exported, selfUse)>>
     \o UnusedFileC(cUse, SpecifierOf(path)) :
     path \in {Pa, Pindex, Pmain, PindexTsx, PmainTsx},
     k \in DOMAIN EntityKinds, exported \in BOOLEAN,
     selfUse \in {"none", "call", "init", "recursive"},
     cUse \in {"none", "import", "global"}}

InitUnused ==
  /\ files \in UnusedProjects
  /\ disk = Range(files)
  /\ diskDirs = DirsOf(files)
  /\ projectInstance = 1
  /\ last = NoCall
  /\ steps = 0

\* unusedService.findUnused()
FindUnusedOp ==
  /\ last.op = "none"
  /\ last' = [op |-> "findUnused", result |-> findUnused(files)]
  /\ UNCHANGED <<files, disk, diskDirs, steps, projectInstance>>

NextUnused == FindUnusedOp

SpecUnused == InitUnused /\ [][NextUnused]_vars

----------------------------------------------------------------------------
(* Properties of the unused detector, checked under SpecUnused.            *)

\* The entity has a reference in a file other than its own.
HasOtherFileReference(fs, entity) ==
  \E i \in DOMAIN getReferences(fs, entity) :
    getReferences(fs, entity)[i].file # entity.filePath

\* findUnused has reported the entity.
Reported(result, entity) == \E i \in DOMAIN result : result[i].entity = entity

OnlyOwnToken(fs, entity) ==
  /\ Len(getReferences(fs, entity)) = 1
  /\ getReferences(fs, entity)[1].slot = "decl"

ReportedWith(result, entity, reason) ==
  \E i \in DOMAIN result : result[i].entity = entity /\ result[i].reason = reason

\* C8: every entity of any of the six kinds, outside entry-point files,
\* whose provider reference list holds only the declaration's own name token
\* is reported by findUnused(), with the exported reason when it is exported
\* and the not-exported reason when it is not.
C8_OwnTokenOnlyIsReported ==
  last.op = "findUnused"
    => \A i \in DOMAIN EntitiesOfFiles(files) :
         (/\ ~IsEntryPoint(EntitiesOfFiles(files)[i].filePath)
          /\ OnlyOwnToken(files, EntitiesOfFiles(files)[i]))
           => ReportedWith(last.result, EntitiesOfFiles(files)[i],
                           IF EntitiesOfFiles(files)[i].isExported
                           THEN ReasonExported ELSE ReasonNotExported)

----------------------------------------------------------------------------
(* The import-repair specification: projects in which c.ts calls a name it  *)
(* does not import, other files declare entities of that name or of a name  *)
(* that contains it, and the fix-imports command is run: analyze, fix one   *)
(* entry, save, analyze again.                                             *)

MaxAnalyses == 2

PdotA == <<"/", "r", "/", ".", "g", "/", "a", ".", "t", "s">>
SpecDotA == <<".", "/", ".", "g", "/", "a">>

\* The file that declares the missing name, exported or not, and the
\* exported constant g.
ImportsFileA(path, name, exported) ==
  File(path, <<EntityLine("function", exported, name),
               EntityLine("variable", TRUE, Ng)>>)

\* c.ts: calls the name without an import of it; optionally it imports g
\* from the declaring file.
ImportsFileC(name, withImport, spec) ==
  File(Pc, (IF withImport THEN <<ImportLine(<<Ng>>, spec)>> ELSE <<>>)
             \o <<UseLine(<<Call(name, 0)>>)>>)

\* s/d.ts: nothing, or an exported class of the same name, or an exported
\* function whose name only contains the name.
ImportsFileD(second, name) ==
  CASE second = "same" -> <<File(Pd, <<EntityLine("class", TRUE, name)>>)>>
    [] second = "longer" -> <<File(Pd, <<EntityLine("function", TRUE, name \o Nx)>>)>>
    [] OTHER -> <<>>

ImportsProjects ==
  {<<ImportsFileA(path, name, exported),
     ImportsFileC(name, withImport, IF path = Pa THEN SpecA ELSE SpecDotA)>>
     \o ImportsFileD(second, name) :
     path \in {Pa, PdotA}, name \in {Nf, Ndollar}, exported \in BOOLEAN,
     withImport \in BOOLEAN, second \in {"none", "same", "longer"}}

InitImports ==
  /\ files \in ImportsProjects
  /\ disk = Range(files)
  /\ diskDirs = DirsOf(files)
  /\ projectInstance = 1
  /\ last = NoCall
  /\ steps = 0

\* importsService.analyzeImportErrors()
AnalyzeOp ==
  /\ last.op \in {"none", "saveAll"}
  /\ steps < MaxAnalyses
  /\ last' = [op |-> "analyze", analysis |-> analyzeImportErrors(files)]
  /\ steps' = steps + 1
  /\ UNCHANGED <<files, disk, diskDirs, projectInstance>>

\* The entry with the candidate the user selected; choice 0 is no selection.
WithSelection(fix, choice) ==
  IF choice = 0 THEN fix
  ELSE [fix EXCEPT !.selectedCandidate = <<fix.candidates[choice]>>]

FixApply(r, fix) ==
  /\ files' = r.files
  /\ last' = [op |-> "fixImport", fix |-> fix, returned |-> r.returned]
  /\ UNCHANGED <<disk, diskDirs, steps, projectInstance>>

\* importsService.fixImport(fix) on an entry of the analysis.
FixImportOp ==
  /\ last.op = "analyze"
  /\ \E i \in DOMAIN last.analysis.fixable :
       \E choice \in 0..Len(last.analysis.fixable[i].candidates) :
         FixApply(fixImport(files, WithSelection(last.analysis.fixable[i], choice)),
                  WithSelection(last.analysis.fixable[i], choice))

\* project.saveAll() at the end of the command.
SaveAllOp ==
  /\ last.op = "fixImport"
  /\ disk' = saveAll(files, disk)
  /\ diskDirs' = saveAllDirs(files, diskDirs)
  /\ last' = [op |-> "saveAll"]
  /\ UNCHANGED <<files, steps, projectInstance>>

NextImports == AnalyzeOp \/ FixImportOp \/ SaveAllOp

SpecImports == InitImports /\ [][NextImports]_vars

----------------------------------------------------------------------------
(* Properties of import repair, checked under SpecImports.                 *)

\* The "Cannot find name" diagnostics of the project.
MissingNames(fs) ==
  SelectSeq(AllDiagnostics(fs), LAMBDA d : d.message = "Cannot find name")

\* The exported entities literally named n, in extraction order.
ExportedNamed(fs, n) ==
  SelectSeq(EntitiesOfFiles(fs), LAMBDA e : e.name = n /\ e.isExported)

\* The entry is about the diagnostic d.
IsAbout(entry, d) ==
  /\ entry.error.file = d.file
  /\ entry.error.line = d.line
  /\ entry.error.column = d.column
  /\ entry.error.missingName = d.name

\* C9: a missing identifier with exactly one project-wide exported match is
\* placed in fixable with exactly one candidate by analyzeImportErrors(), and
\* fixImport on that entry returns true and leaves the erroring file with an
\* import of the missing name from a relative specifier that resolves to the
\* candidate's file.
C9_RepairDeterminism ==
  [][/\ (steps' = steps + 1 /\ last'.op = "analyze")
          => \A x \in DOMAIN MissingNames(files) :
               Len(ExportedNamed(files, MissingNames(files)[x].name)) = 1
                 => \E i \in DOMAIN last'.analysis.fixable :
                      /\ IsAbout(last'.analysis.fixable[i], MissingNames(files)[x])
                      /\ Len(last'.analysis.fixable[i].candidates) = 1
     /\ (/\ last.op = "analyze"
         /\ last'.op = "fixImport"
         /\ Len(last'.fix.candidates) = 1
         /\ Len(last'.fix.selectedCandidate) = 0)
          => /\ last'.returned
             /\ ImportsFrom(files', GetFile(files', last'.fix.error.file),
                            last'.fix.error.missingName,
                            last'.fix.candidates[1].filePath)]_vars

\* The exported entities literally named n in a file other than file, in
\* extraction order.
ExportedElsewhere(fs, n, file) ==
  SelectSeq(ExportedNamed(fs, n), LAMBDA e : e.filePath # file)

\* C10: analyzeImportErrors() puts each unresolved-identifier diagnostic for
\* name X in file F in fixable iff at least one exported entity literally
\* named X exists in a file other than F, with exactly those entities as
\* candidates, in extraction order; otherwise the diagnostic is in unfixable.
C10_FixableIffExportedElsewhere ==
  last.op = "analyze"
    => \A x \in DOMAIN MissingNames(files) :
         IF Len(ExportedElsewhere(files, MissingNames(files)[x].name,
                                  MissingNames(files)[x].file)) > 0
         THEN /\ \E i \in DOMAIN last.analysis.fixable :
                   /\ IsAbout(last.analysis.fixable[i], MissingNames(files)[x])
                   /\ last.analysis.fixable[i].candidates
                        = ExportedElsewhere(files, MissingNames(files)[x].name,
                                            MissingNames(files)[x].file)
              /\ \A i \in DOMAIN last.analysis.unfixable :
                   ~IsAbout(last.analysis.unfixable[i], MissingNames(files)[x])
         ELSE /\ \E i \in DOMAIN last.analysis.unfixable :
                   IsAbout(last.analysis.unfixable[i], MissingNames(files)[x])
              /\ \A i \in DOMAIN last.analysis.fixable :
                   ~IsAbout(last.analysis.fixable[i], MissingNames(files)[x])

----------------------------------------------------------------------------
(* The search specification: projects with the classes UserService and      *)
(* UserUtil, a variable user and a function f in a.ts and an interface User *)
(* in s/d.ts, and calls of searchService.search with every combination of   *)
(* the name, kind, exported and file options.                               *)

NUser == <<"U", "s", "e", "r">>
Nuser == <<"u", "s", "e", "r">>
NSER == <<"S", "E", "R">>
Nz == <<"z">>
NUserService == <<"U", "s", "e", "r", "S", "e", "r", "v", "i", "c", "e">>
NUserUtil == <<"U", "s", "e", "r", "U", "t", "i", "l">>
SubdirS == <<"s", "/">>

\* a.ts: a variable, two classes and a function, written in this order.
SearchFileA(serviceExported, utilExported) ==
  File(Pa,
       <<VarLine(1, "const", <<Declarator(Nuser, <<>>)>>),
         DeclLine("class", IF serviceExported THEN 1 ELSE 0, 0, NUserService, <<>>),
         DeclLine("class", IF utilExported THEN 1 ELSE 0, 0, NUserUtil, <<>>),
         DeclLine("function", 0, 0, Nf, <<>>)>>)

\* s/d.ts: an interface User.
SearchFileD(exported) ==
  File(Pd, <<DeclLine("interface", IF exported THEN 1 ELSE 0, 0, NUser, <<>>)>>)

SearchProjects ==
  {<<SearchFileA(serviceExported, utilExported)>>
     \o (IF withD THEN <<SearchFileD(dExported)>> ELSE <<>>) :
     serviceExported \in BOOLEAN, utilExported \in BOOLEAN,
     withD \in BOOLEAN, dExported \in BOOLEAN}

SearchNames == {NoStr, NUser, Nuser, NSER, Nf, Nz}

SearchKinds == {"", "class", "function", "interface"}

SearchExported == {"any", "true", "false"}

SearchFileFilters == {NoStr, SubdirS, Pa}

MaxQueries == 1

InitSearch ==
  /\ files \in SearchProjects
  /\ disk = Range(files)
  /\ diskDirs = DirsOf(files)
  /\ projectInstance = 1
  /\ last = NoCall
  /\ steps = 0

\* searchService.search(options)
SearchCall ==
  /\ steps < MaxQueries
  /\ \E name \in SearchNames, kind \in SearchKinds,
        exported \in SearchExported, file \in SearchFileFilters :
       last' = [op |-> "search",
                options |-> SearchOptions(name, kind, exported, file),
                result |-> search(files, SearchOptions(name, kind, exported, file))]
  /\ steps' = steps + 1
  /\ UNCHANGED <<files, disk, diskDirs, projectInstance>>

NextSearch == SearchCall

SpecSearch == InitSearch /\ [][NextSearch]_vars

----------------------------------------------------------------------------
(* Properties of search, checked under SpecSearch.                         *)

\* term occurs in s at offset i when upper and lower case are not told apart.
OccursAtIgnoringCase(s, term, i) ==
  \A j \in DOMAIN term : LowerChar(s[i + j]) = LowerChar(term[j])

\* The entity passes every filter the options give.
PassesFilters(e, options) ==
  /\ options.file # NoStr => Includes(e.filePath, options.file)
  /\ options.name # NoStr
       => \E i \in 0..(Len(e.name) - Len(options.name)) :
            OccursAtIgnoringCase(e.name, options.name, i)
  /\ options.kind # "" => e.kind = options.kind
  /\ options.exported = "true" => e.isExported
  /\ options.exported = "false" => ~e.isExported

\* The options of the scenario: {name: "User", kind: "class", exported: true}.
UserClassExported == SearchOptions(NUser, "class", "true", NoStr)

EntityNames(entities) == [i \in DOMAIN entities |-> entities[i].name]

\* UserService is exported and UserUtil is not.
ScenarioProject(fs) ==
  /\ \E i \in DOMAIN EntitiesOfFiles(fs) :
       /\ EntitiesOfFiles(fs)[i].name = NUserService
       /\ EntitiesOfFiles(fs)[i].isExported
  /\ \E i \in DOMAIN EntitiesOfFiles(fs) :
       /\ EntitiesOfFiles(fs)[i].name = NUserUtil
       /\ ~EntitiesOfFiles(fs)[i].isExported

\* C11: search(options) returns, in extraction order, exactly the entities
\* that pass every given filter (no name: all pass; name: case-insensitive
\* substring of the entity name; kind and exported: exact match); and
\* search({name: "User", kind: "class", exported: true}) over an exported
\* class UserService and a non-exported class UserUtil returns UserService
\* alone.
C11_SearchReturnsExactlyThePassing ==
  last.op = "search"
    => /\ last.result.entities
            = SelectSeq(EntitiesOfFiles(files),
                        LAMBDA e : PassesFilters(e, last.options))
       /\ (last.options = UserClassExported /\ ScenarioProject(files))
            => EntityNames(last.result.entities) = <<NUserService>>

\* The scenario's search has been made in a project that also holds an
\* interface User and a variable user: it returned UserService alone.
C11_Witness ==
  /\ last.op = "search"
  /\ last.options = UserClassExported
  /\ ScenarioProject(files)
  /\ HasFile(files, Pd)
  /\ EntityNames(last.result.entities) = <<NUserService>>

----------------------------------------------------------------------------
(* The engine as a library: initializeProject and the service methods,      *)
(* called in any order, also before the first initializeProject.            *)
(* projectInstance is 0 while the module variable of core/project.ts is     *)
(* null and counts the ProjectManagers created since; files is the index of *)
(* the live one, empty while there is none.                                 *)

\* The message of the error getProjectInstance() throws.
NotInitializedError == "Project not initialized. Call initializeProject first."

\* The orders in which the files on disk can be added to a new project: the
\* code does not fix the order the glob yields them in.
Orderings(dsk) ==
  {fs \in [1..Cardinality(dsk) -> dsk] :
     \A i, j \in 1..Cardinality(dsk) : i # j => fs[i] # fs[j]}

\* An entity whose node is no declaration of a loaded file.
DetachedEntity ==
  [name |-> Nf, kind |-> "function", filePath |-> Pa, line |-> 1, column |-> 1,
   isExported |-> TRUE, node |-> NoNode]

\* The record of an engine call that threw.
Thrown(op, error) == [op |-> op, threw |-> TRUE, error |-> error]

\* The record of an engine call that returned.
Returned(op, result) == [op |-> op, threw |-> FALSE, error |-> "", result |-> result]

\* fixImport(fix) under the module variable inst: it returns false for an
\* entry without a usable candidate before it asks for the project instance.
fixImportCall(inst, fs, fix) ==
  IF Len(SelectedCandidate(fix)) = 0
  THEN [threw |-> FALSE, returned |-> FALSE, files |-> fs]
  ELSE IF inst = 0
       THEN [threw |-> TRUE, returned |-> FALSE, files |-> fs]
       ELSE [threw |-> FALSE, returned |-> fixImport(fs, fix).returned,
             files |-> fixImport(fs, fix).files]

\* A variant of the turn of the loop that saves after every entry.
FixStepSavingEach(inst, acc, r, i) ==
  [threw |-> r.threw,
   files |-> r.files,
   fixed |-> acc.fixed + (IF ~r.threw /\ r.returned THEN 1 ELSE 0),
   failed |-> acc.failed + (IF ~r.threw /\ ~r.returned THEN 1 ELSE 0),
   log |-> acc.log \o <<[call |-> "fixImport", entry |-> i],
                        [call |-> "saveAll", entry |-> 0]>>]

\* One turn of the loop of fixMultiple on the state acc of the loop: the
\* call of fixImport is logged, its result counted; an exception it throws
\* leaves the loop and the method.
FixStep(inst, acc, r, i) ==
  [threw |-> r.threw,
   files |-> r.files,
   fixed |-> acc.fixed + (IF ~r.threw /\ r.returned THEN 1 ELSE 0),
   failed |-> acc.failed + (IF ~r.threw /\ ~r.returned THEN 1 ELSE 0),
   log |-> Append(acc.log, [call |-> "fixImport", entry |-> i])]

RECURSIVE FixLoop(_, _, _, _)
FixLoop(inst, fixes, i, acc) ==
  IF i > Len(fixes) \/ acc.threw THEN acc
  ELSE FixLoop(inst, fixes, i + 1,
               FixStep(inst, acc, fixImportCall(inst, acc.files, fixes[i]), i))

\* After the loop: getProjectInstance() and project.saveAll().
FixMultipleEnd(inst, dsk, dirs, acc) ==
  IF acc.threw \/ inst = 0
  THEN [threw |-> TRUE, files |-> acc.files, disk |-> dsk, dirs |-> dirs,
        log |-> acc.log, result |-> [fixed |-> acc.fixed, failed |-> acc.failed]]
  ELSE [threw |-> FALSE, files |-> acc.files,
        disk |-> saveAll(acc.files, dsk), dirs |-> saveAllDirs(acc.files, dirs),
        log |-> Append(acc.log, [call |-> "saveAll", entry |-> 0]),
        result |-> [fixed |-> acc.fixed, failed |-> acc.failed]]

\* fixMultiple(fixes) under the module variable inst: the files, the disk,
\* the calls it made in order, whether it threw, and the counts.
fixMultiple(inst, fs, dsk, dirs, fixes) ==
  FixMultipleEnd(inst, dsk, dirs,
                 FixLoop(inst, fixes, 1,
                         [threw |-> FALSE, files |-> fs, fixed |-> 0,
                          failed |-> 0, log |-> <<>>]))

MaxInstances == 2

MaxEngineCalls == 2

\* a.ts declares f and the exported constant g; c.ts calls both without an
\* import; s/d.ts, when there, exports a class f.
EngineFileC == File(Pc, <<UseLine(<<Call(Nf, 0)>>), UseLine(<<Call(Ng, 0)>>)>>)

EngineProjects ==
  {<<ImportsFileA(Pa, Nf, exported), EngineFileC>> \o ImportsFileD(second, Nf) :
     exported \in BOOLEAN, second \in {"none", "same"}}

\* An entry a caller builds by hand for the call of f in c.ts.
HandFix(candidates) ==
  Fixable(ImportError(Diagnostic("Cannot find name", Pc, 1, 1, Nf)), candidates)

\* The entry with each selection a caller can make in it.
Selections(fix) == {WithSelection(fix, c) : c \in 0..Len(fix.candidates)}

\* The batches of n entries: the first n entries of the list, each with a
\* selection.
BatchesOf(fixable, n) ==
  {b \in [1..n -> UNION {Selections(fixable[i]) : i \in 1..n}] :
     \A i \in 1..n : b[i] \in Selections(fixable[i])}

\* The batches a caller hands to fixMultiple: entries of the analysis of the
\* live project, or entries built by hand.
AllBatches(fixable) == UNION {BatchesOf(fixable, n) : n \in 0..Len(fixable)}

EngineBatches(inst, fs) ==
  IF inst = 0
  THEN AllBatches(<<HandFix(<<>>), HandFix(<<DetachedEntity>>)>>)
         \cup BatchesOf(<<HandFix(<<DetachedEntity>>), HandFix(<<>>)>>, 2)
  ELSE AllBatches(analyzeImportErrors(fs).fixable)

\* The entities a caller holds: those of the live project and one of none.
EngineEntities(fs) == Range(EntitiesOfFiles(fs)) \cup {DetachedEntity}

InitEngine ==
  /\ \E fs \in EngineProjects :
       /\ disk = Range(fs)
       /\ diskDirs = DirsOf(fs)
  /\ files = <<>>
  /\ projectInstance = 0
  /\ last = NoCall
  /\ steps = 0

\* initializeProject(config): a new ProjectManager over the files on disk
\* replaces the module variable.
EngineInitialize ==
  /\ projectInstance < MaxInstances
  /\ projectInstance' = projectInstance + 1
  /\ files' \in Orderings(disk)
  /\ last' = Returned("initializeProject", projectInstance + 1)
  /\ UNCHANGED <<disk, diskDirs, steps>>

\* An engine call that leaves the index and the disk as they are.
EngineQuery(record) ==
  /\ last' = record
  /\ steps' = steps + 1
  /\ UNCHANGED <<files, disk, diskDirs, projectInstance>>

\* searchService.search(options)
EngineSearch ==
  /\ steps < MaxEngineCalls
  /\ \E options \in {NameOnly(NoStr), NameOnly(Nf)} :
    EngineQuery(IF projectInstance = 0 THEN Thrown("search", NotInitializedError)
                ELSE Returned("search", search(files, options)))

\* renameService.previewRename(entity): it never asks for the project.
EnginePreviewRename ==
  /\ steps < MaxEngineCalls
  /\ \E entity \in EngineEntities(files) :
    EngineQuery(Returned("previewRename", previewRename(files, entity)))

\* unusedService.findUnused()
EngineFindUnused ==
  /\ steps < MaxEngineCalls
  /\ EngineQuery(IF projectInstance = 0 THEN Thrown("findUnused", NotInitializedError)
              ELSE Returned("findUnused", findUnused(files)))

\* importsService.analyzeImportErrors()
EngineAnalyze ==
  /\ steps < MaxEngineCalls
  /\ EngineQuery(IF projectInstance = 0
              THEN Thrown("analyzeImportErrors", NotInitializedError)
              ELSE Returned("analyzeImportErrors", analyzeImportErrors(files)))

\* An engine call that edits the index or the disk.
EngineMutation(record, fs, dsk, dirs) ==
  /\ last' = record
  /\ files' = fs
  /\ disk' = dsk
  /\ diskDirs' = dirs
  /\ steps' = steps + 1
  /\ UNCHANGED projectInstance

EngineRenamed(r) ==
  EngineMutation(IF r.threw THEN Thrown("rename", "rename")
                 ELSE Returned("rename", r.result),
                 r.files,
                 IF r.saved THEN saveAll(r.files, disk) ELSE disk,
                 IF r.saved THEN saveAllDirs(r.files, diskDirs) ELSE diskDirs)

\* renameService.rename(entity, newName)
EngineRename ==
  /\ steps < MaxEngineCalls
  /\ \E entity \in EngineEntities(files), newName \in {NG, Nblank} :
    IF projectInstance = 0
    THEN EngineQuery(Thrown("rename", NotInitializedError))
    ELSE \E accepts \in ProviderRenameOutcomes(newName) :
           EngineRenamed(rename(files, entity, newName, accepts))

EngineExtracted(r) ==
  EngineMutation(IF r.threw THEN Thrown("extract", "forgotten node")
                 ELSE Returned("extract", r.result),
                 r.files, r.disk, r.dirs)

\* extractService.extract(entity, targetPath)
EngineExtract ==
  /\ steps < MaxEngineCalls
  /\ IF projectInstance = 0
     THEN EngineQuery(Thrown("extract", NotInitializedError))
     ELSE \E entity \in Range(EntitiesOfFiles(files)), targetPath \in {Pa, Pb} :
            EngineExtracted(extract(files, disk, diskDirs, Root, entity, targetPath))

EngineFixed(r, fix) ==
  EngineMutation(IF r.threw THEN Thrown("fixImport", NotInitializedError)
                 ELSE Returned("fixImport", r.returned),
                 r.files, disk, diskDirs)

\* importsService.fixImport(fix)
EngineFixImport ==
  /\ steps < MaxEngineCalls
  /\ \E batch \in EngineBatches(projectInstance, files) :
    /\ Len(batch) = 1
    /\ EngineFixed(fixImportCall(projectInstance, files, batch[1]), batch[1])

EngineFixedMultiple(r, fixes) ==
  EngineMutation([op |-> "fixMultiple", threw |-> r.threw,
                  error |-> IF r.threw THEN NotInitializedError ELSE "",
                  fixes |-> fixes, log |-> r.log, result |-> r.result],
                 r.files, r.disk, r.dirs)

\* importsService.fixMultiple(fixes)
EngineFixMultiple ==
  /\ steps < MaxEngineCalls
  /\ \E fixes \in EngineBatches(projectInstance, files) :
    EngineFixedMultiple(fixMultiple(projectInstance, files, disk, diskDirs, fixes),
                        fixes)

NextEngine ==
  \/ EngineInitialize
  \/ EngineSearch
  \/ EnginePreviewRename
  \/ EngineRename
  \/ EngineExtract
  \/ EngineFindUnused
  \/ EngineAnalyze
  \/ EngineFixImport
  \/ EngineFixMultiple

SpecEngine == InitEngine /\ [][NextEngine]_vars

----------------------------------------------------------------------------
(* Properties of the engine as a library, checked under SpecEngine.        *)

\* A step that is a call of a service method (not of initializeProject).
IsEngineCall == steps' = steps + 1

\* C12: every engine operation called before the Project Index has been
\* initialized fails with the not-initialized error and changes nothing;
\* after initializeProject exactly one Project Index is live, the one most
\* recently initialized: it holds the files as they are on disk then.
C12_FailsBeforeInitialization ==
  [][/\ (IsEngineCall /\ projectInstance = 0)
          => /\ last'.threw
             /\ last'.error = NotInitializedError
             /\ files' = files
             /\ disk' = disk
             /\ diskDirs' = diskDirs
     /\ projectInstance' # projectInstance
          => /\ projectInstance' = projectInstance + 1
             /\ Range(files') = disk]_vars

\* A step that is a call of fixMultiple on an initialized Project Index.
IsFixMultipleStep ==
  /\ IsEngineCall
  /\ projectInstance > 0
  /\ last'.op = "fixMultiple"

\* The files after fixImport has been applied to the entries one after the
\* other.
RECURSIVE FixedInOrder(_, _)
FixedInOrder(fs, fixes) ==
  IF Len(fixes) = 0 THEN fs
  ELSE FixedInOrder(fixImport(fs, Head(fixes)).files, Tail(fixes))

\* The entries for which fixImport returns true.
EntriesFixed(fs, fixes) == {i \in DOMAIN fixes : fixImport(fs, fixes[i]).returned}

\* The positions in the log of the calls of saveAll.
SavesIn(log) == {i \in DOMAIN log : log[i].call = "saveAll"}

\* C13: fixMultiple(fixes) applies fixImport to every entry in order, returns
\* counts with fixed + failed = number of entries, fixed the number of
\* entries for which fixImport returned true, and calls save() exactly once,
\* after the last entry and never between two entries.
C13_FixMultipleSavesOnceAtTheEnd ==
  [][IsFixMultipleStep
       => /\ ~last'.threw
          /\ files' = FixedInOrder(files, last'.fixes)
          /\ Len(last'.log) = Len(last'.fixes) + 1
          /\ \A i \in DOMAIN last'.fixes :
               last'.log[i] = [call |-> "fixImport", entry |-> i]
          /\ SavesIn(last'.log) = {Len(last'.fixes) + 1}
          /\ last'.result.fixed + last'.result.failed = Len(last'.fixes)
          /\ last'.result.fixed = Cardinality(EntriesFixed(files, last'.fixes))
          /\ disk' = saveAll(files', disk)]_vars

\* fixMultiple has been called with two entries, one with two candidates and
\* no selection and one with a single candidate: one failed, one was fixed,
\* and the import it added is on disk.
C13_Witness ==
  /\ last.op = "fixMultiple"
  /\ ~last.threw
  /\ Len(last.fixes) = 2
  /\ Len(last.fixes[1].candidates) = 2
  /\ last.result = [fixed |-> 1, failed |-> 1]
  /\ Len(last.log) = 3
  /\ disk = Range(files)
  /\ \E i \in DOMAIN GetFile(files, Pc).lines : GetFile(files, Pc).lines[i].k = "import"

\* C15: within rename and within extract all read and query work is finished
\* before the first edit of any file and save() comes last; so if a step of
\* the operation fails, the Project Index holds no partial edit of that
\* operation, and no later save() of another operation can write a
\* half-applied rename or extract to disk.
C15_FailureLeavesNoPartialEdit ==
  [][(IsEngineCall /\ last'.op \in {"rename", "extract"} /\ last'.threw)
       => /\ files' = files
          /\ disk' = disk]_vars

----------------------------------------------------------------------------
(* The rename command: executeRename(searchTerm, newName, options), with    *)
(* the entities the user selects when the search finds several and the      *)
(* answers to the confirmation prompts.  log is the sequence of the calls   *)
(* of the rename service the loop makes; each entry says which selected     *)
(* entity was passed and how many renames had been applied and saved since  *)
(* the search that returned the entity.                                     *)

RenameCall(call, i, mutations) ==
  [call |-> call, entity |-> i, mutations |-> mutations]

\* The turn of the loop for the i-th selected entity once previewRename has
\* been called: preview mode and a declined confirmation go on to the next
\* entity; r is what renameService.rename does.  An exception of rename
\* leaves the loop: the try statement is around the whole command.
RenameTurn(acc, i, options, answer, r) ==
  IF options.preview
  THEN [acc EXCEPT !.log = Append(acc.log, RenameCall("previewRename", i, acc.mutations))]
  ELSE IF ~options.yes /\ ~answer
  THEN [acc EXCEPT !.log = Append(acc.log, RenameCall("previewRename", i, acc.mutations)),
                   !.skipped = acc.skipped + 1]
  ELSE [threw |-> r.threw,
        files |-> r.files,
        disk |-> IF r.saved THEN saveAll(r.files, acc.disk) ELSE acc.disk,
        dirs |-> IF r.saved THEN saveAllDirs(r.files, acc.dirs) ELSE acc.dirs,
        completed |-> acc.completed + (IF r.threw THEN 0 ELSE 1),
        skipped |-> acc.skipped,
        mutations |-> acc.mutations + (IF r.saved THEN 1 ELSE 0),
        log |-> acc.log \o <<RenameCall("previewRename", i, acc.mutations),
                             RenameCall("rename", i, acc.mutations)>>]

\* for (let i = 0; i < entitiesToRename.length; i++) { ... }
RECURSIVE RenameLoop(_, _, _, _, _, _, _)
RenameLoop(entities, i, targetName, options, answers, accepts, acc) ==
  IF i > Len(entities) \/ acc.threw THEN acc
  ELSE RenameLoop(entities, i + 1, targetName, options, answers, accepts,
                  RenameTurn(acc, i, options, answers[i],
                             rename(acc.files, entities[i], targetName, accepts)))

\* What the command leaves: the files and the disk, the calls it made, its
\* counts, whether it ended in the catch clause (failed) and whether it
\* printed the summary of a multi-entity rename.
RenameCommandEnd(entities, options, acc) ==
  [files |-> acc.files, disk |-> acc.disk, dirs |-> acc.dirs, log |-> acc.log,
   completed |-> acc.completed, skipped |-> acc.skipped, failed |-> acc.threw,
   summary |-> ~acc.threw /\ ~options.preview /\ Len(entities) > 1]

\* executeRename from the loop on, for the entities to rename.
executeRename(fs, dsk, dirs, entities, targetName, options, answers, accepts) ==
  RenameCommandEnd(entities, options,
                   RenameLoop(entities, 1, targetName, options, answers, accepts,
                              [threw |-> FALSE, files |-> fs, disk |-> dsk,
                               dirs |-> dirs, completed |-> 0, skipped |-> 0,
                               mutations |-> 0, log |-> <<>>]))

\* The non-empty selections of a list, each in the order of the list.
Selectable(entities) ==
  {Pick(entities, Where(keep)) : keep \in [DOMAIN entities -> BOOLEAN]}
    \ {<<>>}

\* entitiesToRename: the only entity found, or those the user selects.
EntitiesToRename(found) ==
  IF Len(found) = 1 THEN {found} ELSE Selectable(found)

MaxCommands == 2

\* a.ts: functions f and fx, f optionally called in a.ts, and a constant g.
CommandFileA(selfUse) ==
  File(Pa,
       <<DeclLine("function", 1, 0, Nf, <<>>),
         DeclLine("function", 1, 0, Nfx, <<>>)>>
         \o (IF selfUse THEN <<UseLine(<<Call(Nf, 0)>>)>> ELSE <<>>)
         \o <<VarLine(1, "const", <<Declarator(Ng, <<>>)>>)>>)

\* c.ts: imports f and fx from a.ts and calls them.
CommandFileC ==
  File(Pc, <<ImportLine(<<Nf, Nfx>>, SpecA),
             UseLine(<<Call(Nf, 0)>>), UseLine(<<Call(Nfx, 0)>>)>>)

CommandProjects ==
  {<<CommandFileA(selfUse)>> \o (IF withC THEN <<CommandFileC>> ELSE <<>>) :
     selfUse \in BOOLEAN, withC \in BOOLEAN}

InitCommand ==
  /\ files \in CommandProjects
  /\ disk = Range(files)
  /\ diskDirs = DirsOf(files)
  /\ projectInstance = 1
  /\ last = NoCall
  /\ steps = 0

CommandOptions == [yes : BOOLEAN, preview : BOOLEAN]

\* The answers to the confirmation prompts; with --yes none is asked.
Answers(options, n) ==
  IF options.yes \/ options.preview THEN {[i \in 1..n |-> TRUE]}
  ELSE [1..n -> BOOLEAN]

RenameCommandApply(r, term, newName, options, selected) ==
  /\ files' = r.files
  /\ disk' = r.disk
  /\ diskDirs' = r.dirs
  /\ last' = [op |-> "executeRename", searchTerm |-> term, newName |-> newName,
              options |-> options, selected |-> selected, log |-> r.log,
              completed |-> r.completed, skipped |-> r.skipped,
              failed |-> r.failed, summary |-> r.summary]
  /\ steps' = steps + 1
  /\ UNCHANGED projectInstance

RenameCommandOn(found, term, newName, options) ==
  IF Len(found) = 0
  THEN /\ last' = [op |-> "executeRename", searchTerm |-> term,
                   newName |-> newName, options |-> options, selected |-> <<>>,
                   log |-> <<>>, completed |-> 0, skipped |-> 0,
                   failed |-> FALSE, summary |-> FALSE]
       /\ steps' = steps + 1
       /\ UNCHANGED <<files, disk, diskDirs, projectInstance>>
  ELSE \E selected \in EntitiesToRename(found) :
         \E answers \in Answers(options, Len(selected)),
            accepts \in ProviderRenameOutcomes(newName) :
           RenameCommandApply(executeRename(files, disk, diskDirs, selected,
                                            newName, options, answers, accepts),
                              term, newName, options, selected)

\* retype rename <searchTerm> <newName> [-y] [-p]: a search term made of
\* letters matches, as a regular expression and as a plain term, the names
\* that contain it whatever the case.
ExecuteRenameOp ==
  /\ steps < MaxCommands
  /\ \E term \in {Nf, Ng, Nz}, newName \in {NG, Nblank}, options \in CommandOptions :
       RenameCommandOn(search(files, NameOnly(term)).entities, term, newName, options)

NextCommand == ExecuteRenameOp

SpecCommand == InitCommand /\ [][NextCommand]_vars

----------------------------------------------------------------------------
(* Properties of the rename command, checked under SpecCommand.            *)

\* A step that is a run of the rename command.
IsRenameCommand == steps' = steps + 1 /\ last'.op = "executeRename"

\* The selected entities the loop has called the rename service for.
Processed(log) == {log[k].entity : k \in DOMAIN log}

\* C14: in a batch operation (fixMultiple, the multi-entity loop of the
\* rename command) a failure of one item, an exception raised while
\* processing it included, does not abort the batch: every later item is
\* still processed and the batch reaches its final step, for the rename loop
\* the summary.
C14_ItemFailureDoesNotAbortTheBatch ==
  [][IsRenameCommand
       => /\ Processed(last'.log) = DOMAIN last'.selected
          /\ (~last'.options.preview /\ Len(last'.selected) > 1)
               => last'.summary]_vars

\* C16: in the calls the command handlers make, an entity obtained from a
\* search that ran before a mutating operation is never passed to a later
\* engine call after that mutation; the multi-entity rename loop does not
\* rename its second and later entities through handles captured before the
\* first rename and save.
C16_NoHandleUsedAfterMutation ==
  [][IsRenameCommand
       => \A k \in DOMAIN last'.log : last'.log[k].mutations = 0]_vars

----------------------------------------------------------------------------
(* The destination specification: extract of a function with a leading      *)
(* comment and a use of a sibling declaration, of a declarator of a         *)
(* variable statement with two declarators or of a variable declared alone, *)
(* into b.ts, which the origin may import already and which does not exist  *)
(* or exists with no import, an import on one line, an import over several  *)
(* lines, or an import of the entity from the origin file.                  *)

MaxMoves == 1

Nv == <<"v">>
Nw == <<"w">>

SpecB == <<".", "/", "b">>
SpecBjs == <<".", "/", "b", ".", "j", "s">>

\* The import of k from b.ts that a.ts has: none, one with the specifier
\* ./b, or one with the specifier ./b.js.
OwnImportOfB(own) ==
  CASE own = "b" -> <<ImportLine(<<Nk>>, SpecB)>>
    [] own = "bjs" -> <<ImportLine(<<Nk>>, SpecBjs)>>
    [] OTHER -> <<>>

\* a.ts: imports x from ./m, or y from ./m under the alias x, and possibly k
\* from b.ts; function f, optionally under a comment line, uses x and
\* optionally the exported function h of a.ts; the statement kw v, w
\* declares two variables, the statement kw g one.
DestinationFileA(commented, exported, usesSibling, kw, own, aliased) ==
  File(Pa,
       <<IF aliased THEN ImportAliased(<<Ny>>, <<Nx>>, SpecM)
         ELSE ImportLine(<<Nx>>, SpecM)>>
         \o OwnImportOfB(own)
         \o (IF commented THEN <<CommentLine("c")>> ELSE <<>>)
         \o <<DeclLine("function", IF exported THEN 1 ELSE 0, 0, Nf,
                       <<Call(Nx, 20)>>
                         \o (IF usesSibling THEN <<Call(Nh, 24)>> ELSE <<>>)),
              DeclLine("function", 1, 0, Nh, <<>>),
              VarLine(IF exported THEN 1 ELSE 0, kw,
                      <<Declarator(Nv, <<>>), Declarator(Nw, <<>>)>>),
              VarLine(0, kw, <<Declarator(Ng, <<>>)>>)>>)

\* b.ts, when it exists: the exported constant k after no import, an import
\* of y from ./m on one line or over several lines, or an import of f from
\* a.ts.
DestinationFileB(shape) ==
  CASE shape = "none" -> <<>>
    [] shape = "plain" ->
         <<File(Pb, <<VarLine(1, "const", <<Declarator(Nk, <<>>)>>)>>)>>
    [] shape = "single" ->
         <<File(Pb, <<ImportLine(<<Ny>>, SpecM),
                      VarLine(1, "const", <<Declarator(Nk, <<Call(Ny, 10)>>)>>)>>)>>
    [] shape = "multi" ->
         <<File(Pb, MultiLineImport(<<Ny>>, SpecM)
                      \o <<VarLine(1, "const", <<Declarator(Nk, <<Call(Ny, 10)>>)>>)>>)>>
    [] OTHER ->
         <<File(Pb, <<ImportLine(<<Nf>>, SpecA),
                      VarLine(1, "const", <<Declarator(Nk, <<Call(Nf, 10)>>)>>)>>)>>

\* c.ts: imports f, alone or with h, from a.ts and calls it.
DestinationFileC(withH) ==
  File(Pc, <<ImportLine(IF withH THEN <<Nf, Nh>> ELSE <<Nf>>, SpecA),
             UseLine(<<Call(Nf, 0)>>)>>)

\* m.ts: the constants x and y.
FileMxy ==
  File(Pm, <<VarLine(1, "const", <<Declarator(Nx, <<>>)>>),
             VarLine(1, "const", <<Declarator(Ny, <<>>)>>)>>)

DestinationProjects ==
  {<<DestinationFileA(commented, exported, usesSibling, kw, own, aliased)>>
     \o DestinationFileB(shape)
     \o <<DestinationFileC(withH), FileMxy>> :
     commented \in BOOLEAN, exported \in BOOLEAN, usesSibling \in BOOLEAN,
     kw \in {"const", "let"}, own \in {"none", "b", "bjs"},
     aliased \in BOOLEAN,
     shape \in {"none", "plain", "single", "multi", "importer"},
     withH \in BOOLEAN}

InitDestination ==
  /\ files \in DestinationProjects
  /\ disk = Range(files)
  /\ diskDirs = DirsOf(files)
  /\ projectInstance = 1
  /\ last = NoCall
  /\ steps = 0

ExtractIntoB(found) ==
  /\ Len(found) = 1
  /\ ExtractApply(extract(files, disk, diskDirs, Root, found[1], Pb), found[1], Pb)

\* retype extract <entityName> b.ts -y
ExtractToBOp ==
  /\ steps < MaxMoves
  /\ \E entityName \in {Nf, Nv, Nw, Ng} :
       ExtractIntoB(findByName(files, entityName))

NextDestination == ExtractToBOp

SpecDestination == InitDestination /\ [][NextDestination]_vars

----------------------------------------------------------------------------
(* Properties of the destination file, checked under SpecDestination.      *)

\* The declarator the entity handle points at.
DeclaratorOf(fs, entity) ==
  GetFile(fs, entity.filePath).lines[entity.node.l].decls[entity.node.d]

\* The names used inside the declaration of the entity, its own name aside.
NamesUsedBy(fs, entity) ==
  UsedIdentifiers(DeclaratorOf(fs, entity)) \ {entity.name}

\* The name n resolves in the file at path: it is declared there, imported
\* there or a global.
ResolvesIn(fs, path, n) == ~Unresolved(fs, GetFile(fs, path), n)

\* C17: after extract(E, B) has completed, every name used inside the moved
\* declaration of E that resolved in the origin file A, through an import of
\* A or through another top-level declaration of A, resolves in B.
C17_DestinationResolvesWhatOriginResolved ==
  [][IsExtractStep /\ ~last'.threw
       => \A n \in NamesUsedBy(files, last'.entity) :
            ResolvesIn(files, last'.entity.filePath, n)
              => ResolvesIn(files', last'.targetPath, n)]_vars

\* The import declarations of file g that name n and come from the file at
\* path.
ImportingLines(fs, g, n, path) ==
  {i \in DOMAIN g.lines :
     /\ g.lines[i].k = "import"
     /\ \E j \in DOMAIN g.lines[i].names : g.lines[i].names[j] = n
     /\ IsRelativeSpecifier(g.lines[i].spec)
     /\ ProviderResolve(fs, g.path, g.lines[i].spec) = path}

\* The import declaration l of n has been replaced in the lines after: with
\* n its only name it is there with the new module specifier; with other
\* names it is there without n, and an import of n from the new specifier
\* is there as well.
EntryReplaced(l, after, n, newSpec) ==
  IF \A j \in DOMAIN l.names : l.names[j] = n
  THEN \E k \in DOMAIN after : after[k] = [l EXCEPT !.spec = newSpec]
  ELSE /\ \E k \in DOMAIN after :
            after[k] = [l EXCEPT !.names = SelectSeq(l.names, LAMBDA m : m # n)]
       /\ \E k \in DOMAIN after : after[k] = ImportLine(<<n>>, newSpec)

\* The files other than the origin that import the entity from the origin.
ImportersOf(fs, entity) ==
  {fs[i].path : i \in {j \in DOMAIN fs :
     /\ fs[j].path # entity.filePath
     /\ ImportingLines(fs, fs[j], entity.name, entity.filePath) # {}}}

\* C18: extract replaces, in every loaded file other than the origin, every
\* import declaration from the origin file that names the entity: with the
\* entity as its only named import the module specifier is rewritten to the
\* destination, otherwise the name is removed and an import of it from the
\* destination is added; importsUpdated lists exactly the files touched.
C18_ImportersAreRewired ==
  [][IsExtractStep /\ ~last'.threw
       => /\ \A p \in ImportersOf(files, last'.entity) :
               \A i \in ImportingLines(files, GetFile(files, p),
                                       last'.entity.name, last'.entity.filePath) :
                 EntryReplaced(GetFile(files, p).lines[i],
                               GetFile(files', p).lines,
                               last'.entity.name,
                               SpecifierTo(p, last'.result.targetPath))
          /\ Range(last'.result.importsUpdated)
               = ImportersOf(files, last'.entity)]_vars

\* The lines after are the lines before with the added lines put in after
\* line at (followed by a blank line when they are put at the top), then one
\* blank line and the text.
MergedAt(before, after, at, added, text) ==
  IF Len(added) = 0
  THEN after = before \o <<BlankLine>> \o text
  ELSE \E sep \in {<<>>, <<BlankLine>>} :
         /\ sep # <<>> => at = 0
         /\ after = InsertAfter(before, at, added \o sep) \o <<BlankLine>> \o text

\* The import declarations carried over with the entity that the lines do
\* not hold yet.
CarriedImports(fs, entity, existing) ==
  Flatten(ImportsToAdd(existing,
                       getRequiredImports(GetFile(fs, entity.filePath).lines,
                                          entity.node)))

\* C19: extract into an existing destination keeps all of its text, inserts
\* the carried-over imports it does not hold yet after the end of its last
\* import declaration, also when that declaration spans several lines, or at
\* the top when it has no import, and appends the moved declaration text at
\* the end after one blank line.
C19_MergeInsertsAfterLastImport ==
  [][(/\ IsExtractStep
      /\ ~last'.threw
      /\ HasFile(files, last'.result.targetPath))
       => MergedAt(GetFile(files, last'.result.targetPath).lines,
                   GetFile(files', last'.result.targetPath).lines,
                   LastImportEnd(GetFile(files, last'.result.targetPath).lines),
                   CarriedImports(files, last'.entity,
                                  GetFile(files, last'.result.targetPath).lines),
                   getFullEntityText(GetFile(files, last'.entity.filePath).lines,
                                     last'.entity.node))]_vars

\* The last line of the lines that declares n, 0 when none does.
DeclarationLine(lines, n) ==
  MaxOf({i \in DOMAIN lines :
           lines[i].k = "decl" /\ \E j \in DOMAIN lines[i].decls :
                                    lines[i].decls[j].name = n})

\* Line at of the destination is the complete declaration d of the statement
\* l, alone in a statement of the same kind and keyword, with exactly one
\* export modifier.
CapturedAt(dest, at, l, d) ==
  /\ at # 0
  /\ dest[at].kind = l.kind
  /\ dest[at].kw = l.kw
  /\ dest[at].mods = l.mods
  /\ dest[at].decls = <<d>>
  /\ ExportModifiers(dest, at) = 1

\* The declarators of the statement l other than d are declared in the
\* origin and not in the destination.
SiblingsStay(origin, dest, l, d) ==
  \A j \in DOMAIN l.decls :
    l.decls[j] # d
      => /\ DeclarationLine(origin, l.decls[j].name) # 0
         /\ DeclarationLine(dest, l.decls[j].name) = 0

\* C20: the text extract writes to the destination is the complete
\* declaration with exactly one export modifier, whether or not the entity
\* was exported in the origin and whatever precedes its keyword, a leading
\* comment included; for a variable declared with siblings it is a statement
\* of its own with the same keyword, exported, and the siblings stay.
C20_CapturedTextHasOneExport ==
  [][IsExtractStep /\ ~last'.threw
       => /\ CapturedAt(GetFile(files', last'.result.targetPath).lines,
                        DeclarationLine(GetFile(files', last'.result.targetPath).lines,
                                        last'.entity.name),
                        GetFile(files, last'.entity.filePath).lines[last'.entity.node.l],
                        DeclaratorOf(files, last'.entity))
          /\ SiblingsStay(GetFile(files', last'.entity.filePath).lines,
                          GetFile(files', last'.result.targetPath).lines,
                          GetFile(files, last'.entity.filePath).lines[last'.entity.node.l],
                          DeclaratorOf(files, last'.entity))]_vars

\* The import declarations of file g that come from the file at path.
DeclarationsFrom(fs, g, path) ==
  {i \in DOMAIN g.lines :
     g.lines[i].k = "import" /\ ProviderResolve(fs, g.path, g.lines[i].spec) = path}

\* The named imports of n in file g that come from the file at path: the
\* pairs of an import declaration and a position among its names.
NamedImportsOf(fs, g, n, path) ==
  UNION {{<<i, j>> : j \in {j \in DOMAIN g.lines[i].names :
                              g.lines[i].names[j] = n}} :
           i \in DeclarationsFrom(fs, g, path)}

\* The number of import declarations from a module after a name has been
\* merged into the existing one, or a declaration added when there was none.
MergedCount(before) == IF before = 0 THEN 1 ELSE before

\* The origin after the extract: no declaration of n, no statement left
\* without a declarator, the siblings of d in the statement l still
\* declared, n imported from the destination once, in the import declaration
\* from the destination there was or in a new one.
OriginCleaned(fs, originBefore, origin, dest, l, d, n) ==
  /\ DeclarationLine(origin.lines, n) = 0
  /\ \A i \in DOMAIN origin.lines :
       origin.lines[i].k = "decl" => Len(origin.lines[i].decls) > 0
  /\ Cardinality({i \in DOMAIN origin.lines : origin.lines[i].k = "decl"})
       = Cardinality({i \in DOMAIN originBefore.lines :
                        originBefore.lines[i].k = "decl"})
           - (IF Len(l.decls) = 1 THEN 1 ELSE 0)
  /\ SiblingsStay(origin.lines, dest.lines, l, d)
  /\ Cardinality(NamedImportsOf(fs, origin, n, dest.path)) = 1
  /\ Cardinality(DeclarationsFrom(fs, origin, dest.path))
       = MergedCount(Cardinality(DeclarationsFrom(fs, originBefore, dest.path)))

\* C21: after extract the origin file no longer holds the moved declaration
\* (the whole statement of a variable declared alone is gone, of a statement
\* with several declarators only that declarator), and it imports the entity
\* from the destination exactly once: merged into the import from the
\* destination module it has, otherwise in a new import declaration.
C21_OriginCleanedAndImportsOnce ==
  [][IsExtractStep /\ ~last'.threw
       => OriginCleaned(files',
                        GetFile(files, last'.entity.filePath),
                        GetFile(files', last'.entity.filePath),
                        GetFile(files', last'.result.targetPath),
                        GetFile(files, last'.entity.filePath).lines[last'.entity.node.l],
                        DeclaratorOf(files, last'.entity),
                        last'.entity.name)]_vars

\* One of the names the import declaration l binds, as a named import, the
\* default import or the namespace import, is among the names used.
BindsUsedName(l, used) ==
  \/ \E j \in DOMAIN l.names : LocalName(l, j) \in used
  \/ l.def # NoStr /\ l.def \in used
  \/ l.ns # NoStr /\ l.ns \in used

HoldsLine(lines, l) == \E k \in DOMAIN lines : lines[k] = l

\* The import declarations of the origin that bind a used name are in the
\* destination afterwards, and those that bind none are not, unless the
\* destination held them before.
CarriedIffUsed(origin, destBefore, destAfter, used) ==
  \A i \in DOMAIN origin :
    origin[i].k = "import"
      => IF BindsUsedName(origin[i], used)
         THEN HoldsLine(destAfter, origin[i])
         ELSE HoldsLine(destAfter, origin[i]) => HoldsLine(destBefore, origin[i])

\* The lines of the file at path, none when the file is not loaded.
LinesAt(fs, path) == IF HasFile(fs, path) THEN GetFile(fs, path).lines ELSE <<>>

\* C22: extract carries an import declaration of the origin file to the
\* destination if and only if at least one of the names it imports, as a
\* named, default or namespace import, is used inside the declaration that
\* is moved.
C22_ImportCarriedIffUsed ==
  [][IsExtractStep /\ ~last'.threw
       => CarriedIffUsed(GetFile(files, last'.entity.filePath).lines,
                         LinesAt(files, last'.result.targetPath),
                         LinesAt(files', last'.result.targetPath),
                         NamesUsedBy(files, last'.entity))]_vars

----------------------------------------------------------------------------
(* The carried imports across directories, checked under SpecExtract.      *)

\* The lines hold an import declaration of the names that, written in the
\* file at path, denotes the module.
ImportsModule(fs, path, lines, names, module) ==
  \E k \in DOMAIN lines :
    /\ lines[k].k = "import"
    /\ lines[k].names = names
    /\ ProviderResolve(fs, path, lines[k].spec) = module

\* Every import declaration of the origin that binds a used name and denotes
\* a module of the project is in the destination as an import of the same
\* names that denotes the same module there.
CarriedResolveAlike(fsBefore, fsAfter, origin, dest, used) ==
  \A i \in DOMAIN origin.lines :
    (/\ origin.lines[i].k = "import"
     /\ BindsUsedName(origin.lines[i], used)
     /\ ProviderResolve(fsBefore, origin.path, origin.lines[i].spec) # NoStr)
      => ImportsModule(fsAfter, dest.path, dest.lines, origin.lines[i].names,
                       ProviderResolve(fsBefore, origin.path, origin.lines[i].spec))

\* C29: every import declaration that extract carries from the origin file A
\* into the destination B denotes in B the module it denoted in A, also when
\* A and B are in different directories.
C29_CarriedImportsResolveAlike ==
  [][IsExtractStep /\ ~last'.threw
       => CarriedResolveAlike(files, files',
                              GetFile(files, last'.entity.filePath),
                              GetFile(files', last'.result.targetPath),
                              NamesUsedBy(files, last'.entity))]_vars

----------------------------------------------------------------------------
(* Entry points, checked under SpecUnused.                                 *)

EntryPointNames == {<<"i", "n", "d", "e", "x">>, <<"m", "a", "i", "n">>}

\* The name of the file, without directory and extension, is index or main.
IsEntryPointFile(filePath) ==
  removeExtension(PathBasename(filePath)) \in EntryPointNames

\* C23: findUnused() never reports an entity declared in a loaded file whose
\* file name is index or main, with the extension .ts or .tsx, whatever its
\* references are.
C23_EntryPointEntitiesNotReported ==
  last.op = "findUnused"
    => \A i \in DOMAIN last.result :
         ~IsEntryPointFile(last.result[i].entity.filePath)

----------------------------------------------------------------------------
(* The scan specification: findUnused on the projects of the unused-        *)
(* detector specification, the provider's reference resolution throwing    *)
(* for some of the entities.                                               *)

\* unusedService.findUnused(), node.findReferences() throwing for the
\* entities at the positions failing.
ScanOp ==
  /\ last.op = "none"
  /\ \E failing \in SUBSET (DOMAIN EntitiesOfFiles(files)) :
       last' = [op |-> "findUnused", failing |-> failing,
                result |-> findUnusedFailing(files, failing)]
  /\ UNCHANGED <<files, disk, diskDirs, steps, projectInstance>>

NextScan == ScanOp

SpecScan == InitUnused /\ [][NextScan]_vars

\* The entities for which the resolution did not fail are classified as
\* they are without any failure.
OthersClassified(fs, entities, failing, result) ==
  \A i \in DOMAIN entities :
    i \notin failing
      => (Reported(result, entities[i]) <=> checkIfUnused(fs, entities[i]).unused)

\* C24: when the provider's reference resolution throws for an entity during
\* findUnused(), every other entity is still classified, and the entity
\* whose resolution failed is not in the list of unused entities.
C24_FailedResolutionIsSkipped ==
  last.op = "findUnused"
    => /\ OthersClassified(files, EntitiesOfFiles(files), last.failing, last.result)
       /\ \A i \in last.failing :
            ~Reported(last.result, EntitiesOfFiles(files)[i])

----------------------------------------------------------------------------
(* The second filter of the unused detector, checked under SpecUnused.     *)

\* The references of the entity that are left after the definition-site
\* filter.
RemainingReferences(fs, entity) ==
  ExternalReferences(entity,
                     NodeStart(GetFile(fs, entity.filePath).lines, entity.node),
                     getReferences(fs, entity))

\* The parent of the reference is a declaration of the name the reference
\* writes: the reference is the name token of a declaration.
IsDeclarationOfSameName(ref) == ref.slot = "decl"

SurvivingReferences(references) ==
  SelectSeq(references, LAMBDA r : ~IsDeclarationOfSameName(r))

\* The entity is not exported, is outside the entry-point files, and has
\* remaining references, all of them in its own file.
OnlyOwnFileReferences(fs, entity) ==
  /\ ~entity.isExported
  /\ ~IsEntryPoint(entity.filePath)
  /\ Len(RemainingReferences(fs, entity)) > 0
  /\ \A i \in DOMAIN RemainingReferences(fs, entity) :
       RemainingReferences(fs, entity)[i].file = entity.filePath

SecondFilterRight(fs, entity, result) ==
  OnlyOwnFileReferences(fs, entity)
    => IF Len(SurvivingReferences(RemainingReferences(fs, entity))) > 0
       THEN ~Reported(result, entity)
       ELSE ReportedWith(result, entity, ReasonDeclared)

\* C25: for a non-exported entity whose remaining references are all in its
\* own file, only the references whose parent is a declaration of the same
\* name are set aside; a reference whose parent declares another name, such
\* as the entity as the initializer of another variable, survives and keeps
\* the entity live, and the entity is reported as declared but never used
\* only when no reference survives.
C25_OnlySameNameDeclarationsFiltered ==
  last.op = "findUnused"
    => \A i \in DOMAIN EntitiesOfFiles(files) :
         SecondFilterRight(files, EntitiesOfFiles(files)[i], last.result)

----------------------------------------------------------------------------
(* The definition-site filter, checked under SpecUnused.                   *)

\* The references to the entity in its own file other than the name token
\* of its declaration.
OwnFileUsages(fs, entity) ==
  SelectSeq(getReferences(fs, entity),
            LAMBDA r : r.file = entity.filePath /\ r.slot # "decl")

ZeroReferenceReasons == {ReasonExported, ReasonNotExported}

\* Every usage of the entity in its own file is left by the definition-site
\* filter, and an entity with such a usage is not reported as one without
\* references.
UsagesKept(fs, entity, result) ==
  /\ \A i \in DOMAIN OwnFileUsages(fs, entity) :
       \E k \in DOMAIN RemainingReferences(fs, entity) :
         RemainingReferences(fs, entity)[k] = OwnFileUsages(fs, entity)[i]
  /\ Len(OwnFileUsages(fs, entity)) > 0
       => \A reason \in ZeroReferenceReasons : ~ReportedWith(result, entity, reason)

\* C26: the definition-site filter of findUnused discards only the name
\* token of the declaration itself: a usage of the entity in the same file,
\* also one on the line of the declaration a few characters after its start,
\* is never discarded and keeps the entity from being counted as having no
\* reference.
C26_DefinitionFilterKeepsUsages ==
  last.op = "findUnused"
    => \A i \in DOMAIN EntitiesOfFiles(files) :
         ~IsEntryPoint(EntitiesOfFiles(files)[i].filePath)
           => UsagesKept(files, EntitiesOfFiles(files)[i], last.result)

----------------------------------------------------------------------------
(* The repair specification: c.ts calls f once or twice without an import  *)
(* of it, a.ts exports f, s/d.ts may export a class f, and the fix-imports  *)
(* command analyzes once and then applies fixImport to entries of that     *)
(* analysis, or a caller applies it to an entry built by hand.             *)

MaxFixes == 3

\* c.ts: possibly an import of g from a.ts, written ./a or ./a.js, and one
\* or two calls of f.
RepairFileC(own, twice) ==
  File(Pc, (CASE own = "a" -> <<ImportLine(<<Ng>>, SpecA)>>
              [] own = "ajs" -> <<ImportLine(<<Ng>>, SpecAjs)>>
              [] OTHER -> <<>>)
             \o <<UseLine(<<Call(Nf, 0)>>)>>
             \o (IF twice THEN <<UseLine(<<Call(Nf, 0)>>)>> ELSE <<>>))

RepairProjects ==
  {<<ImportsFileA(Pa, Nf, TRUE), RepairFileC(own, twice)>> \o ImportsFileD(second, Nf) :
     own \in {"none", "a", "ajs"}, twice \in BOOLEAN, second \in {"none", "same"}}

InitRepair ==
  /\ files \in RepairProjects
  /\ disk = Range(files)
  /\ diskDirs = DirsOf(files)
  /\ projectInstance = 1
  /\ last = NoCall
  /\ steps = 0

\* const analysis = importsService.analyzeImportErrors()
RepairAnalyzeOp ==
  /\ last.op = "none"
  /\ last' = [op |-> "analyze", analysis |-> analyzeImportErrors(files)]
  /\ UNCHANGED <<files, disk, diskDirs, steps, projectInstance>>

\* An entry built by hand for a call of f in b.ts, a file that is not
\* loaded, with the candidates.
UnloadedFix(candidates) ==
  Fixable(ImportError(Diagnostic("Cannot find name", Pb, 1, 1, Nf)), candidates)

\* The entries fixImport is called with: those of the analysis, with each
\* selection, and entries built by hand without a candidate or for a file
\* that is not loaded.
RepairEntries(fs, fixable) ==
  UNION {Selections(fixable[i]) : i \in DOMAIN fixable}
    \cup {HandFix(<<>>)}
    \cup Selections(UnloadedFix(ExportedNamed(fs, Nf)))

\* What identifies an application of fixImport: the missing name, the
\* erroring file and the candidate.
FixKey(fix) ==
  [name |-> fix.error.missingName, file |-> fix.error.file,
   candidate |-> SelectedCandidate(fix)]

RepairApply(r, fix) ==
  /\ files' = r.files
  /\ last' = [op |-> "fixImport", analysis |-> last.analysis, fix |-> fix,
              returned |-> r.returned,
              again |-> /\ last.op = "fixImport"
                        /\ last.returned
                        /\ FixKey(last.fix) = FixKey(fix)]
  /\ steps' = steps + 1
  /\ UNCHANGED <<disk, diskDirs, projectInstance>>

\* importsService.fixImport(fix)
RepairFixOp ==
  /\ steps < MaxFixes
  /\ last.op \in {"analyze", "fixImport"}
  /\ \E fix \in RepairEntries(files, last.analysis.fixable) :
       RepairApply(fixImport(files, fix), fix)

NextRepair == RepairAnalyzeOp \/ RepairFixOp

SpecRepair == InitRepair /\ [][NextRepair]_vars

----------------------------------------------------------------------------
(* Properties of fixImport, checked under SpecRepair.                      *)

\* A step that is a call of fixImport.
IsRepairFix == steps' = steps + 1 /\ last'.op = "fixImport"

\* The import declarations of the lines with the module specifier.
DeclarationsWith(lines, spec) ==
  {i \in DOMAIN lines : lines[i].k = "import" /\ lines[i].spec = spec}

\* How often the import declaration names the identifier.
TimesNamed(l, name) == Cardinality({j \in DOMAIN l.names : l.names[j] = name})

ImportsNamed(lines, name, spec) ==
  \E i \in DOMAIN lines :
    lines[i].k = "import" /\ lines[i].spec = spec /\ TimesNamed(lines[i], name) >= 1

\* The call has returned false and changed no file.
Refused(returned, fsBefore, fsAfter) == ~returned /\ fsAfter = fsBefore

\* What fixImport owes for the entry fix as it was passed.
FixImportContract(fix, returned, fsBefore, fsAfter) ==
  /\ (/\ Len(fix.selectedCandidate) = 0
      /\ Len(fix.candidates) = 1
      /\ HasFile(fsBefore, fix.error.file))
       => /\ returned
          /\ ImportsNamed(GetFile(fsAfter, fix.error.file).lines,
                          fix.candidates[1].name,
                          SpecifierTo(fix.error.file, fix.candidates[1].filePath))
  /\ (Len(fix.selectedCandidate) = 0 /\ Len(fix.candidates) # 1)
       => Refused(returned, fsBefore, fsAfter)
  /\ ~HasFile(fsBefore, fix.error.file) => Refused(returned, fsBefore, fsAfter)

\* C27: fixImport(fix) without a selected candidate takes the candidate when
\* there is exactly one; without a selected candidate and with a number of
\* candidates other than one it returns false and changes no file; it also
\* returns false and changes nothing when the erroring file is not loaded.
C27_FixImportSelectsOrRefuses ==
  [][IsRepairFix => FixImportContract(last'.fix, last'.returned, files, files')]_vars

\* fixImport has taken the only candidate of an entry without a selection
\* and has written the import of f from a.ts into c.ts.
C27_Witness ==
  /\ last.op = "fixImport"
  /\ Len(last.fix.selectedCandidate) = 0
  /\ Len(last.fix.candidates) = 1
  /\ last.fix.error.file = Pc
  /\ last.returned
  /\ ImportsNamed(GetFile(files, Pc).lines, Nf, SpecA)

\* After the application of fixImport for the name in the file with the
\* candidate, the file has exactly one import declaration with the module
\* specifier of the candidate, and it names the identifier once.
ImportedOnce(lines, name, spec) ==
  /\ Cardinality(DeclarationsWith(lines, spec)) = 1
  /\ \A i \in DeclarationsWith(lines, spec) : TimesNamed(lines[i], name) = 1

AppliedOnce(fs, key) ==
  ImportedOnce(GetFile(fs, key.file).lines, key.candidate[1].name,
               SpecifierTo(key.file, key.candidate[1].filePath))

\* C30: fixImport applied repeatedly for the same missing name, the same
\* erroring file and the same candidate is idempotent: after each
\* application the file has exactly one import declaration from that module
\* specifier, naming the identifier exactly once, and an application after
\* the first changes nothing.
C30_RepeatedFixIsIdempotent ==
  [][IsRepairFix /\ last'.returned
       => /\ AppliedOnce(files', FixKey(last'.fix))
          /\ last'.again => files' = files]_vars

\* fixImport has been applied three times in a row for f in c.ts with the
\* candidate of a.ts, and c.ts imports f once.
C30_Witness ==
  /\ steps = MaxFixes
  /\ last.op = "fixImport"
  /\ last.returned
  /\ last.again
  /\ last.fix.error.file = Pc
  /\ AppliedOnce(files, FixKey(last.fix))

----------------------------------------------------------------------------
(* src/core/project.ts: glob-based loading.                                *)

Star == "*"
Backslash == "\\"

\* s.replace(/from/g, to): every occurrence of from, from left to right,
\* replaced by to.
RECURSIVE ReplaceAll(_, _, _)
ReplaceAll(s, from, to) ==
  IF Len(s) = 0 THEN <<>>
  ELSE IF StartsWith(s, from)
       THEN to \o ReplaceAll(SubSeq(s, Len(from) + 1, Len(s)), from, to)
  ELSE <<Head(s)>> \o ReplaceAll(Tail(s), from, to)

\* The text of the regular expression matchesPattern builds from a pattern:
\* ** becomes .*, then every * becomes [^/]*, then every / becomes \/.
RegexPattern(pattern) ==
  ReplaceAll(ReplaceAll(ReplaceAll(pattern, <<Star, Star>>, <<".", Star>>),
                        <<Star>>, <<"[", "^", "/", "]", "*">>),
             <<Slash>>, <<Backslash, Slash>>)

\* The class [^\/]* as the third replacement leaves it.
NoSlashStar == <<"[", "^", "\\", "/", "]", "*">>

\* Whether the regular expression re, read from position i, matches a part
\* of s that starts at position j: [^\/]* takes any run of characters other
\* than /, \c the character c, . any character, every other character
\* itself.
RECURSIVE MatchAt(_, _, _, _)
MatchAt(re, i, s, j) ==
  IF i > Len(re) THEN TRUE
  ELSE IF StartsWith(SubSeq(re, i, Len(re)), NoSlashStar)
       THEN \E k \in j..(Len(s) + 1) :
              /\ \A m \in j..(k - 1) : s[m] # Slash
              /\ MatchAt(re, i + Len(NoSlashStar), s, k)
  ELSE IF re[i] = Backslash
       THEN /\ i < Len(re)
            /\ j <= Len(s)
            /\ s[j] = re[i + 1]
            /\ MatchAt(re, i + 2, s, j + 1)
  ELSE /\ j <= Len(s)
       /\ re[i] = "." \/ s[j] = re[i]
       /\ MatchAt(re, i + 1, s, j + 1)

\* new RegExp(re).test(s): the expression matches somewhere in s.
RegExpTest(re, s) == \E j \in 1..(Len(s) + 1) : MatchAt(re, 1, s, j)

\* matchesPattern(filePath, pattern)
matchesPattern(filePath, pattern) == RegExpTest(RegexPattern(pattern), filePath)

\* src/constants/index.ts
DEFAULT_EXCLUDE_PATTERNS ==
  <<<<"*", "*", "/", "n", "o", "d", "e", "_", "m", "o", "d", "u", "l", "e", "s", "/", "*", "*">>,
    <<"*", "*", "/", "d", "i", "s", "t", "/", "*", "*">>,
    <<"*", "*", "/", "b", "u", "i", "l", "d", "/", "*", "*">>,
    <<"*", "*", "/", "*", ".", "d", ".", "t", "s">>,
    <<"*", "*", "/", "*", ".", "t", "e", "s", "t", ".", "t", "s">>,
    <<"*", "*", "/", "*", ".", "s", "p", "e", "c", ".", "t", "s">>>>

\* excludePatterns.some((pattern) => this.matchesPattern(filePath, pattern))
IsExcluded(filePath, excludePatterns) ==
  \E p \in DOMAIN excludePatterns : matchesPattern(filePath, excludePatterns[p])

\* The files the constructor leaves in the index when there is no
\* tsconfig.json: those of the candidates that are on disk, have a source
\* extension and match no exclude pattern.
LoadedFiles(candidates, dsk, excludePatterns) ==
  SelectSeq(candidates,
            LAMBDA f : /\ f \in dsk
                       /\ EndsWith(f.path, TsExt) \/ EndsWith(f.path, TsxExt)
                       /\ ~IsExcluded(f.path, excludePatterns))

----------------------------------------------------------------------------
(* The loading specification: a directory /r without tsconfig.json holding  *)
(* some of a set of files, and a ProjectManager constructed on it with the  *)
(* default exclude patterns or with those of the configuration.            *)

Padd == <<"/", "r", "/", "a", "d", "d", ".", "t", "s">>
Platest == <<"/", "r", "/", "l", "a", "t", "e", "s", "t", ".", "t", "s">>
Pdts == <<"/", "r", "/", "x", ".", "d", ".", "t", "s">>
Ptest == <<"/", "r", "/", "x", ".", "t", "e", "s", "t", ".", "t", "s">>
Pspec == <<"/", "r", "/", "x", ".", "s", "p", "e", "c", ".", "t", "s">>
Pdist == <<"/", "r", "/", "d", "i", "s", "t", "/", "x", ".", "t", "s">>
Pmodule == <<"/", "r", "/", "n", "o", "d", "e", "_", "m", "o", "d", "u", "l", "e", "s", "/", "p", ".", "t", "s">>
PaTsx == <<"/", "r", "/", "a", ".", "t", "s", "x">>

\* The files that may be on disk, in the order the provider lists them.
LoadCandidates ==
  <<File(Pa, <<>>), File(PaTsx, <<>>), File(Padd, <<>>), File(Pdist, <<>>),
    File(Platest, <<>>), File(Pmodule, <<>>), File(Pdts, <<>>),
    File(Pspec, <<>>), File(Ptest, <<>>)>>

\* config.exclude, when the configuration has one.
ConfiguredExcludes == {<<<<"*", "*", "/", "*", ".", "s", "p", "e", "c", ".", "t", "s">>>>, <<<<"*", "*", "/", "d", "i", "s", "t", "/", "*", "*">>>>}

InitLoad ==
  /\ disk \in SUBSET Range(LoadCandidates)
  /\ diskDirs = UNION {Ancestors(PathDirname(f.path)) : f \in disk}
  /\ files = <<>>
  /\ projectInstance = 0
  /\ last = NoCall
  /\ steps = 0

\* new ProjectManager({rootPath, exclude}) through initializeProject
LoadOp ==
  /\ projectInstance = 0
  /\ \E excludePatterns \in {DEFAULT_EXCLUDE_PATTERNS} \cup ConfiguredExcludes :
       /\ files' = LoadedFiles(LoadCandidates, disk, excludePatterns)
       /\ last' = [op |-> "load", excludePatterns |-> excludePatterns]
  /\ projectInstance' = 1
  /\ UNCHANGED <<disk, diskDirs, steps>>

NextLoad == LoadOp

SpecLoad == InitLoad /\ [][NextLoad]_vars

\* Whether the glob pattern p, read from position i, matches the whole rest
\* of s from position j: ** any characters, * any characters other than /,
\* every other character itself.
RECURSIVE GlobMatchAt(_, _, _, _)
GlobMatchAt(p, i, s, j) ==
  IF i > Len(p) THEN j = Len(s) + 1
  ELSE IF p[i] = Star /\ i < Len(p) /\ p[i + 1] = Star
       THEN \E k \in j..(Len(s) + 1) : GlobMatchAt(p, i + 2, s, k)
  ELSE IF p[i] = Star
       THEN \E k \in j..(Len(s) + 1) :
              /\ \A m \in j..(k - 1) : s[m] # Slash
              /\ GlobMatchAt(p, i + 1, s, k)
  ELSE /\ j <= Len(s)
       /\ s[j] = p[i]
       /\ GlobMatchAt(p, i + 1, s, j + 1)

GlobMatches(filePath, excludePatterns) ==
  \E p \in DOMAIN excludePatterns : GlobMatchAt(excludePatterns[p], 1, filePath, 1)

\* C28: in glob-based loading a file is left out of the index if and only
\* if its path matches an exclude pattern as a glob, ** matching across
\* path separators, * within one segment and every other character itself;
\* with the default patterns add.ts and latest.ts stay loaded.
C28_ExcludedIffGlobMatches ==
  last.op = "load"
    => \A f \in disk :
         HasFile(files, f.path) <=> ~GlobMatches(f.path, last.excludePatterns)

====
